---- MODULE Spec2Model ----
(***************************************************************************)
(* A model of the connection-handling engine of the HTTP server:           *)
(*   - ThreadPool (thread_pool.cpp): the shared task queue, the worker     *)
(*     threads, start / stop / resize / enqueue, at the granularity of the *)
(*     accesses to is_running_, queue_mutex_ and condition_;               *)
(*   - HttpServer::processHttpRequest (http_server.cpp): the middleware /  *)
(*     static / route / not-found / error pipeline for one request.        *)
(*   - HttpServer::handleConnection and HttpServer::start, with the TLS     *)
(*     handshake of SslServer;                                             *)
(*   - SocketServer (socket_server.cpp): bind / listen / accept / stop on   *)
(*     two listeners of one process;                                       *)
(*   - HttpRequest::parse (http_request.cpp) on a set of request texts,    *)
(*     and HttpRequest::urlDecode on every short string of an alphabet;    *)
(*   - HttpResponse (http_response.cpp): the setters and toString called   *)
(*     in any order on one object;                                         *)
(*   - HttpServer::matchRoute on every short pattern and path, and the     *)
(*     route table of a server with several routes.                        *)
(***************************************************************************)
EXTENDS Integers, Sequences, FiniteSets, TLC

(* ------------------------------ bounds -------------------------------- *)
\* largest thread count a constructor or resize argument may ask for
MaxThreads == 2
\* number of enqueue calls the producer thread makes
MaxTasks == 2
\* number of start / stop / resize calls the controlling thread makes
MaxOps == 2
\* number of middlewares registered with use()
MaxMiddlewares == 2
\* number of routes registered with route() on a server that also has
\* middlewares of every kind and a not-found handler of every kind
MaxRoutes == 1
\* number of routes registered with route() on a server whose middlewares
\* all return true
MaxTableRoutes == 2
\* number of connections one worker handles in turn
MaxConns == 2
\* number of sockets the process may create before socket() fails
MaxFds == 2
\* number of bind / listen / stop calls made on the listeners from outside
\* HttpServer::start
MaxCalls == 3
\* number of clients that connect to the listening socket
MaxClients == 2
\* number of calls made on one HttpResponse object
MaxResponseCalls == 3
\* length of the longest string handed to urlDecode
MaxEncoded == 4
\* length of the longest route pattern and of the longest path handed to
\* matchRoute
MaxPattern == 3

VARIABLES
    is_running_,   \* ThreadPool::is_running_ (std::atomic<bool>)
    threads_,      \* ThreadPool::threads_: one record per std::thread slot
    tasks_,        \* ThreadPool::tasks_: the queue, as task identifiers
    task,          \* what became of each task passed to enqueue
    ctl,           \* the thread calling start / stop / resize
    prod,          \* the thread calling enqueue
    terminated,    \* std::terminate was called: the process is gone
    middlewares_,  \* HttpServer::middlewares_, in registration order
    routes_,       \* HttpServer::routes_, in registration order
    static_paths_, \* HttpServer::static_paths_: URL prefix -> directory
    not_found_handler_,  \* HttpServer::not_found_handler_
    request,       \* the HttpRequest of the connection being handled
    response,      \* the HttpResponse shared by middlewares and handlers
    rpc,           \* where handleConnection / processHttpRequest stands
    log,           \* the user functions called for this request, in order
    sent,          \* what was written to the connection
    conn,          \* the connection handleConnection is working on
    use_ssl_,      \* HttpServer::use_ssl_
    ssl_server_,   \* HttpServer::ssl_server_: the SslServer startHttps made
    sock,          \* the SocketServer objects: 1 is HttpServer::socket_server_
    fds,           \* the sockets the process created, by descriptor
    acc,           \* the thread inside SocketServer::accept on listener 1
    clients,       \* the connections ::accept returned, and what became of them
    http,          \* the thread inside HttpServer::start
    platform,      \* the operating system the build runs on
    calls,         \* calls made on the listeners so far
    input,         \* the bytes HttpRequest::parse is given
    hreq,          \* the HttpRequest object parse fills in
    ppc,           \* where parse stands, and the part of the input not yet read
    hres,          \* an HttpResponse object used directly, and its last call
    dec,           \* a call of HttpRequest::urlDecode: argument and result
    match          \* a call of HttpServer::matchRoute: arguments and result

poolVars == <<is_running_, threads_, tasks_, task, ctl, prod, terminated>>

routeVars == <<middlewares_, routes_, static_paths_, not_found_handler_,
               request, response, rpc, log, sent>>

connVars == <<conn, use_ssl_, ssl_server_>>

sockVars == <<sock, fds, acc, clients, http, platform, calls>>

parseVars == <<input, hreq, ppc>>

libVars == <<hres, dec, match>>

\* what the ThreadPool's operations leave alone
nonPoolVars == <<routeVars, connVars, sockVars, parseVars, libVars>>

\* what the steps of processHttpRequest leave alone
nonRouteVars == <<poolVars, connVars, sockVars, parseVars, libVars>>

\* what handleConnection leaves alone
nonHttpVars == <<poolVars, sockVars, parseVars, libVars>>

\* what the SocketServer's operations leave alone
nonSockVars == <<poolVars, routeVars, connVars, parseVars, libVars>>

\* what HttpRequest::parse leaves alone
nonParseVars == <<poolVars, routeVars, connVars, sockVars, libVars>>

\* what a call made directly on an HttpResponse, on urlDecode or on
\* matchRoute leaves alone
nonLibVars == <<poolVars, routeVars, connVars, sockVars, parseVars>>

vars == <<is_running_, threads_, tasks_, task, ctl, prod, terminated,
          middlewares_, routes_, static_paths_, not_found_handler_,
          request, response, rpc, log, sent, conn, use_ssl_, ssl_server_,
          sock, fds, acc, clients, http, platform, calls, input, hreq, ppc,
          hres, dec, match>>

(* ------------------------------ ThreadPool ---------------------------- *)

\* what a task does when it is called
TaskKinds == {"ok", "std_exception", "other_throw"}

TaskIds == 1..MaxTasks

\* a task nobody has passed to enqueue yet.  st is where the task is, out
\* what its call did, runs how often it was called; seen is the value of
\* is_running_ its enqueue call read and pre whether that call came before
\* the first start()
NoTask == [st |-> "none", out |-> "none", runs |-> 0, seen |-> FALSE, pre |-> FALSE]

\* a std::thread slot that holds no thread of execution (default-constructed
\* or joined)
NoThread == [pc |-> "none", cur |-> 0]

\* a thread just created on workerLoop
Spawned == [pc |-> "loop", cur |-> 0]

Workers == 1..Len(threads_)

\* queue_mutex_ is held by a worker between the evaluation of the wait
\* predicate and either the blocking wait or the end of the locked scope
MutexHeld == \E w \in Workers : threads_[w].pc \in {"prewait", "check"}

\* threads of the pool whose thread function has not returned; std::terminate
\* leaves none
LiveWorkers == IF terminated
                 THEN {}
                 ELSE {w \in Workers : threads_[w].pc \notin {"none", "exited"}}

\* threads blocked inside condition_.wait
Waiting == {w \in Workers : threads_[w].pc = "waiting"}

getThreadCount == Len(threads_)

getQueueSize == Len(tasks_)

isRunning == is_running_

\* resize(): a requested size of 0 becomes 1
CoerceSize(n) == IF n = 0 THEN 1 ELSE n

\* ThreadPool::ThreadPool(num_threads): is_running_(false), resize(num_threads)
PoolInit ==
    /\ is_running_ = FALSE
    /\ \E n \in 0..MaxThreads : threads_ = [i \in 1..CoerceSize(n) |-> NoThread]
    /\ tasks_ = <<>>
    /\ task = [t \in TaskIds |-> NoTask]
    /\ ctl = [pc |-> "idle", op |-> "none", arg |-> 0, n |-> 0, was |-> FALSE,
              ops |-> 0, started |-> FALSE, last |-> "none"]
    /\ prod = [pc |-> "idle", cur |-> 0, calls |-> 0]
    /\ terminated = FALSE

\* ---- start() ----
\* the threads start() creates: one per slot of threads_
StartThreads == [i \in 1..Len(threads_) |-> Spawned]

Start ==
    /\ ~terminated
    /\ ctl.pc = "idle"
    /\ ctl.ops < MaxOps
    /\ IF is_running_
         THEN UNCHANGED <<is_running_, threads_>>
         ELSE /\ is_running_' = TRUE
              /\ threads_' = StartThreads
    /\ ctl' = [ctl EXCEPT !.ops = @ + 1, !.started = TRUE, !.last = "start"]
    /\ UNCHANGED <<tasks_, task, prod, terminated>>
    /\ UNCHANGED nonPoolVars

\* ---- stop() ----
\* condition_.notify_all(): every thread blocked in wait is released
NotifyAll == [w \in 1..Len(threads_) |->
                 IF threads_[w].pc = "waiting"
                   THEN [threads_[w] EXCEPT !.pc = "lock"]
                   ELSE threads_[w]]

\* stop(), lines 26-30: return if not running, else clear the flag
StopBegin ==
    /\ ~terminated
    /\ ctl.pc = "idle"
    /\ ctl.ops < MaxOps
    /\ IF ~is_running_
         THEN /\ ctl' = [ctl EXCEPT !.ops = @ + 1, !.last = "stop"]
              /\ UNCHANGED is_running_
         ELSE /\ is_running_' = FALSE
              /\ ctl' = [ctl EXCEPT !.pc = "notify", !.op = "stop", !.ops = @ + 1]
    /\ UNCHANGED <<threads_, tasks_, task, prod, terminated>>
    /\ UNCHANGED nonPoolVars

\* stop(), line 31
StopNotify ==
    /\ ~terminated
    /\ ctl.pc = "notify"
    /\ threads_' = NotifyAll
    /\ ctl' = [ctl EXCEPT !.pc = "join"]
    /\ UNCHANGED <<is_running_, tasks_, task, prod, terminated>>
    /\ UNCHANGED nonPoolVars

\* a join that returns while the thread function is still running
AllExited_NoWait == TRUE

\* every joinable thread has returned from workerLoop
AllExited == \A w \in Workers : threads_[w].pc \in {"none", "exited"}

\* stop(), lines 33-37: join returns once the thread function has returned
StopJoin ==
    /\ ~terminated
    /\ ctl.pc = "join"
    /\ AllExited
    /\ threads_' = [w \in 1..Len(threads_) |-> NoThread]
    /\ ctl' = IF ctl.op = "stop"
                THEN [ctl EXCEPT !.pc = "idle", !.last = "stop"]
                ELSE [ctl EXCEPT !.pc = "alloc"]
    /\ UNCHANGED <<is_running_, tasks_, task, prod, terminated>>
    /\ UNCHANGED nonPoolVars

\* ---- resize(new_size) ----
\* resize(), lines 54-62: coerce the size, remember the flag, stop if running
ResizeBegin(n) ==
    /\ ~terminated
    /\ ctl.pc = "idle"
    /\ ctl.ops < MaxOps
    /\ IF is_running_
         THEN /\ is_running_' = FALSE
              /\ ctl' = [ctl EXCEPT !.pc = "notify", !.op = "resize", !.arg = n,
                                    !.n = CoerceSize(n), !.was = TRUE, !.ops = @ + 1]
         ELSE /\ UNCHANGED is_running_
              /\ ctl' = [ctl EXCEPT !.pc = "alloc", !.op = "resize", !.arg = n,
                                    !.n = CoerceSize(n), !.was = FALSE, !.ops = @ + 1]
    /\ UNCHANGED <<threads_, tasks_, task, prod, terminated>>
    /\ UNCHANGED nonPoolVars

\* a resize that leaves a running pool stopped
Restart_Never(was) == FALSE

\* resize(), lines 67-69: start again if the pool was running
Restart(was) == was

\* resize(), lines 64-69: threads_.clear(); threads_.resize(new_size); start()
ResizeAlloc ==
    /\ ~terminated
    /\ ctl.pc = "alloc"
    /\ IF Restart(ctl.was)
         THEN /\ is_running_' = TRUE
              /\ threads_' = [i \in 1..ctl.n |-> Spawned]
         ELSE /\ UNCHANGED is_running_
              /\ threads_' = [i \in 1..ctl.n |-> NoThread]
    /\ ctl' = [ctl EXCEPT !.pc = "idle", !.last = "resize"]
    /\ UNCHANGED <<tasks_, task, prod, terminated>>
    /\ UNCHANGED nonPoolVars

\* ---- enqueue(task) ----
\* an enqueue that keeps the task whatever the flag says
Accepts_Always(running) == TRUE

\* enqueue(), line 41: the task is kept only if the pool is running
Accepts(running) == running

\* enqueue(), lines 41-43: read is_running_; drop the task if it is false
EnqueueCheck ==
    /\ ~terminated
    /\ prod.pc = "idle"
    /\ prod.calls < MaxTasks
    /\ LET t == prod.calls + 1 IN
         IF Accepts(is_running_)
           THEN /\ prod' = [pc |-> "push", cur |-> t, calls |-> t]
                /\ task' = [task EXCEPT ![t] = [NoTask EXCEPT !.st = "accepted",
                                                   !.seen = is_running_, !.pre = ~ctl.started]]
           ELSE /\ prod' = [pc |-> "idle", cur |-> 0, calls |-> t]
                /\ task' = [task EXCEPT ![t] = [NoTask EXCEPT !.st = "dropped",
                                                   !.seen = is_running_, !.pre = ~ctl.started]]
    /\ UNCHANGED <<is_running_, threads_, tasks_, ctl, terminated>>
    /\ UNCHANGED nonPoolVars

\* enqueue(), lines 45-48: push under queue_mutex_
EnqueuePush ==
    /\ ~terminated
    /\ prod.pc = "push"
    /\ ~MutexHeld
    /\ tasks_' = Append(tasks_, prod.cur)
    /\ task' = [task EXCEPT ![prod.cur].st = "queued"]
    /\ prod' = [prod EXCEPT !.pc = "notify"]
    /\ UNCHANGED <<is_running_, threads_, ctl, terminated>>
    /\ UNCHANGED nonPoolVars

\* enqueue(), line 50: condition_.notify_one() releases one blocked thread,
\* if there is one
EnqueueNotify ==
    /\ ~terminated
    /\ prod.pc = "notify"
    /\ \/ /\ Waiting = {}
          /\ UNCHANGED threads_
       \/ \E w \in Waiting : threads_' = [threads_ EXCEPT ![w].pc = "lock"]
    /\ prod' = [prod EXCEPT !.pc = "idle", !.cur = 0]
    /\ UNCHANGED <<is_running_, tasks_, task, ctl, terminated>>
    /\ UNCHANGED nonPoolVars

\* ---- workerLoop() ----
\* line 78: while (is_running_)
W_Loop(w) ==
    /\ ~terminated
    /\ threads_[w].pc = "loop"
    /\ threads_' = [threads_ EXCEPT ![w].pc = IF is_running_ THEN "lock" ELSE "exited"]
    /\ UNCHANGED <<is_running_, tasks_, task, ctl, prod, terminated>>
    /\ UNCHANGED nonPoolVars

\* the wait predicate of line 83
WaitPredicate == tasks_ /= <<>> \/ ~is_running_

\* lines 82-83: take queue_mutex_ (also when re-acquiring it after a wakeup)
\* and evaluate the predicate
W_Lock(w) ==
    /\ ~terminated
    /\ threads_[w].pc = "lock"
    /\ ~MutexHeld
    /\ threads_' = [threads_ EXCEPT ![w].pc = IF WaitPredicate THEN "check" ELSE "prewait"]
    /\ UNCHANGED <<is_running_, tasks_, task, ctl, prod, terminated>>
    /\ UNCHANGED nonPoolVars

\* line 83: the predicate was false; release the mutex and block
W_Wait(w) ==
    /\ ~terminated
    /\ threads_[w].pc = "prewait"
    /\ threads_' = [threads_ EXCEPT ![w].pc = "waiting"]
    /\ UNCHANGED <<is_running_, tasks_, task, ctl, prod, terminated>>
    /\ UNCHANGED nonPoolVars

\* a wait may return without a notification
W_SpuriousWake(w) ==
    /\ ~terminated
    /\ threads_[w].pc = "waiting"
    /\ threads_' = [threads_ EXCEPT ![w].pc = "lock"]
    /\ UNCHANGED <<is_running_, tasks_, task, ctl, prod, terminated>>
    /\ UNCHANGED nonPoolVars

\* lines 85-93: leave if stopped, else take the front task; the mutex is
\* released at the end of the scope
W_Check(w) ==
    /\ ~terminated
    /\ threads_[w].pc = "check"
    /\ IF ~is_running_
         THEN /\ threads_' = [threads_ EXCEPT ![w].pc = "exited"]
              /\ UNCHANGED <<tasks_, task>>
         ELSE IF tasks_ /= <<>>
           THEN /\ threads_' = [threads_ EXCEPT ![w] = [pc |-> "run", cur |-> Head(tasks_)]]
                /\ tasks_' = Tail(tasks_)
                /\ task' = [task EXCEPT ![Head(tasks_)].st = "running"]
           ELSE /\ threads_' = [threads_ EXCEPT ![w].pc = "loop"]
                /\ UNCHANGED <<tasks_, task>>
    /\ UNCHANGED <<is_running_, ctl, prod, terminated>>
    /\ UNCHANGED nonPoolVars

\* lines 96-101: the handler catches what derives from std::exception
Caught(kind) == kind = "std_exception"

\* lines 95-102: call the task, which does one of TaskKinds; an exception
\* nothing catches leaves the thread function and std::terminate ends the
\* process
W_Run(w, k) ==
    /\ ~terminated
    /\ threads_[w].pc = "run"
    /\ LET t == threads_[w].cur IN
         /\ task' = [task EXCEPT ![t].st = "done", ![t].out = k, ![t].runs = @ + 1]
         /\ IF k = "ok" \/ Caught(k)
              THEN /\ threads_' = [threads_ EXCEPT ![w] = [pc |-> "loop", cur |-> 0]]
                   /\ UNCHANGED terminated
              ELSE /\ terminated' = TRUE
                   /\ UNCHANGED threads_
    /\ UNCHANGED <<is_running_, tasks_, ctl, prod>>
    /\ UNCHANGED nonPoolVars

Worker(w) ==
    \/ W_Loop(w)
    \/ W_Lock(w)
    \/ W_Wait(w)
    \/ W_Check(w)
    \/ \E k \in TaskKinds : W_Run(w, k)

(* ----------------------------- HttpResponse --------------------------- *)

\* HttpResponse::HttpResponse(): status OK, version HTTP/1.1, no header, no body
NewResponse ==
    [status_code_ |-> 200, headers_ |-> [n \in {} |-> ""], body_ |-> "",
     version_ |-> "HTTP/1.1"]

\* enum class StatusCode
StatusCodes == {200, 201, 204, 400, 401, 403, 404, 405, 500, 501, 503}

\* HttpResponse::HttpResponse(StatusCode status_code)
HttpResponse(status_code) == [NewResponse EXCEPT !.status_code_ = status_code]

setStatusCode(res, code) == [res EXCEPT !.status_code_ = code]

\* headers_[name] = value
setHeader(res, name, value) ==
    [res EXCEPT !.headers_ =
        [n \in DOMAIN res.headers_ \cup {name} |->
            IF n = name THEN value ELSE res.headers_[n]]]

getHeader(res, name) ==
    IF name \in DOMAIN res.headers_ THEN res.headers_[name] ELSE ""

\* a body change that leaves the headers as they are
setContentLength_Skip(res) == res

\* setHeader("Content-Length", std::to_string(body_.length()))
setContentLength(res) == setHeader(res, "Content-Length", ToString(Len(res.body_)))

setBody(res, body) == setContentLength([res EXCEPT !.body_ = body])

\* setBody(const char* body, size_t length): body_.assign(body, length)
setBodyLength(res, body, length) ==
    setContentLength([res EXCEPT !.body_ = SubSeq(body, 1, length)])

setJsonContent(res, json) ==
    setBody(setHeader(res, "Content-Type", "application/json; charset=utf-8"), json)

setHtmlContent(res, html) ==
    setBody(setHeader(res, "Content-Type", "text/html; charset=utf-8"), html)

setTextContent(res, text) ==
    setBody(setHeader(res, "Content-Type", "text/plain; charset=utf-8"), text)

enableCors(res, origin) ==
    setHeader(setHeader(setHeader(res, "Access-Control-Allow-Origin", origin),
                        "Access-Control-Allow-Methods", "GET, POST, PUT, DELETE, OPTIONS"),
              "Access-Control-Allow-Headers", "Content-Type, Authorization")

\* a table that knows no status code
statusCodeToString_Unknown(code) == "Unknown"

statusCodeToString(code) ==
    CASE code = 200 -> "OK"
      [] code = 201 -> "Created"
      [] code = 204 -> "No Content"
      [] code = 400 -> "Bad Request"
      [] code = 401 -> "Unauthorized"
      [] code = 403 -> "Forbidden"
      [] code = 404 -> "Not Found"
      [] code = 405 -> "Method Not Allowed"
      [] code = 500 -> "Internal Server Error"
      [] code = 501 -> "Not Implemented"
      [] code = 503 -> "Service Unavailable"
      [] OTHER -> "Unknown"

\* the part of a file path after its last '.', "" if it has none
Extension(path) ==
    LET dots == {i \in 1..Len(path) : SubSeq(path, i, i) = "."}
    IN  IF dots = {} THEN ""
        ELSE LET d == CHOOSE i \in dots : \A j \in dots : j <= i
             IN  SubSeq(path, d + 1, Len(path))

\* the entries of the MIME table the modelled files use
getMimeType(file_extension) ==
    CASE file_extension = "html" -> "text/html"
      [] file_extension = "txt" -> "text/plain"
      [] file_extension = "wasm" -> "application/wasm"
      [] OTHER -> "application/octet-stream"

\* the files that can be opened, with their contents, under the names the
\* server opens them by; "./public/../x.txt" names the file x.txt of the
\* directory above ./public
Files ==
    [p \in {"./public/f.txt", "./public/f.bin", "./public/../x.txt"} |->
        CASE p = "./public/f.txt" -> "hello"
          [] p = "./public/f.bin" -> "bin"
          [] OTHER -> "secret"]

\* HttpResponse::setFileContent
setFileContent(res, file_path) ==
    IF file_path \notin DOMAIN Files
      THEN setTextContent(setStatusCode(res, 404), "File not found")
      ELSE setBody(setHeader(res, "Content-Type", getMimeType(Extension(file_path))),
                   Files[file_path])

\* HttpResponse::toString: the status line, one line per header (headers_ is
\* an unordered_map: the lines come in no specified order), the body
toString(res) ==
    [status_line |-> res.version_ \o " " \o ToString(res.status_code_) \o " "
                       \o statusCodeToString(res.status_code_) \o "\r\n",
     header_lines |-> {n \o ": " \o res.headers_[n] \o "\r\n" : n \in DOMAIN res.headers_},
     body |-> res.body_]

\* what toString returns before it was ever called
NoWire == [status_line |-> "", header_lines |-> {}, body |-> ""]

\* no HttpResponse is used directly
NoResponseUse == hres = [obj |-> NewResponse, op |-> "none", n |-> 0, wire |-> NoWire]

\* the bodies, header names and header values a caller passes
Bodies == {"", "Hello, World!", "{}"}

HeaderNames == {"Content-Length", "Custom-Header"}

HeaderValues == {"7", "Custom-Value"}

\* the lengths a caller passes with a const char* body
Lengths(body) == {0, Len(body)} \cup {k \in {5} : k <= Len(body)}

\* one call of a member function that changes the object: op names the
\* function, obj is the object after it
ResponseCall(op, obj) ==
    /\ hres.n < MaxResponseCalls
    /\ hres' = [hres EXCEPT !.obj = obj, !.op = op, !.n = @ + 1]
    /\ UNCHANGED <<dec, match>>
    /\ UNCHANGED nonLibVars

\* toString() const: the object stays as it is
CallToString ==
    /\ hres.n < MaxResponseCalls
    /\ hres' = [hres EXCEPT !.op = "toString", !.n = @ + 1, !.wire = toString(hres.obj)]
    /\ UNCHANGED <<dec, match>>
    /\ UNCHANGED nonLibVars

(* ------------------------------ HttpServer ---------------------------- *)

\* the requests a connection may carry, as HttpRequest holds them after
\* parse(): a request that failed to parse keeps the constructor's defaults
Requests ==
    {[method_ |-> "UNKNOWN", path_ |-> "", is_valid_ |-> FALSE]}
    \cup [method_ : {"GET", "POST"},
          path_ : {"/a", "/b", "/s/f.txt", "/s/none"},
          is_valid_ : {TRUE}]

\* the middlewares a caller may register: "tag" sets a
\* header and returns true, "deny" sets a 403 text response and returns
\* false, "throw" raises a std::exception, "throw_other" raises something
\* that does not derive from std::exception (throw 42;)
MiddlewareKinds == {"tag", "deny", "throw", "throw_other"}

MiddlewareEffect(kind, res) ==
    CASE kind = "tag" -> setHeader(res, "X-Custom-Header", "middleware-test")
      [] kind = "deny" -> setTextContent(setStatusCode(res, 403), "Forbidden")
      [] OTHER -> res

MiddlewareReturn(kind) == kind = "tag"

\* the handlers a caller may register: "ok" sets a text body, "throw" raises
\* a std::exception
HandlerKinds == {"ok", "throw", "throw_other"}

HandlerEffect(kind, res) ==
    IF kind = "ok" THEN setTextContent(res, "GET test") ELSE res

RouteMethods == {"GET", "OPTIONS"}

RoutePatterns == {"/a", "/*"}

\* the URL prefixes a caller may map to the directory ./public
StaticPrefixes == {"/s", "/none"}

\* listener 1 is the one HttpServer owns, listener 2 another SocketServer of
\* the same process
Listeners == {1, 2}

\* the last call made on a listener: its arguments, its return value, and
\* whether a bind had succeeded on the listener since it was constructed or
\* last stopped
NoCall == [op |-> "none", ok |-> FALSE, port |-> 0, host |-> "", pre |-> FALSE]

\* SocketServer::SocketServer(): no socket, not running.  bound and stopping
\* are not members: bound records that a bind succeeded since construction
\* or the last stop(), stopping that stop() is between its two statements
NoListener == [server_socket_ |-> -1, port_ |-> 0, host_ |-> "", is_running_ |-> FALSE,
               bound |-> FALSE, stopping |-> FALSE, call |-> NoCall]

\* no connection accepted yet: n counts the connections handled so far,
\* failed those whose TLS session could not be set up, closes the calls of
\* close(client_socket) made for the connection in hand; term tells whether
\* the read loop ended on the header terminator ("seen") or on a read that
\* returned nothing more ("missing")
NoConn == [pc |-> "idle", n |-> 0, ssl |-> "none", socket |-> "none", hs |-> "none",
           failed |-> 0, closes |-> 0, term |-> "none"]

\* HttpServer::ssl_server_ before startHttps: no SslServer was made.  Once
\* one is made, is_initialized_ and ssl_context_ are its members, and init
\* records how its initialize call went
NoSslServer == [made |-> FALSE, is_initialized_ |-> FALSE, ssl_context_ |-> "null",
                init |-> "none"]

\* HttpServer::HttpServer(): no middleware, route or static mapping, the
\* default handlers
ServerInit ==
    /\ middlewares_ = <<>>
    /\ routes_ = <<>>
    /\ static_paths_ = [p \in {} |-> ""]
    /\ not_found_handler_ = "default"
    /\ request = [method_ |-> "UNKNOWN", path_ |-> "", is_valid_ |-> FALSE]
    /\ response = NewResponse
    /\ rpc = [pc |-> "config", i |-> 0]
    /\ log = <<>>
    /\ sent = "nothing"
    /\ conn = NoConn
    /\ use_ssl_ = FALSE
    /\ ssl_server_ = NoSslServer
    /\ sock = [l \in Listeners |-> NoListener]
    /\ fds = <<>>
    /\ acc = [pc |-> "idle", fd |-> -1, cur |-> 0]
    /\ clients = <<>>
    /\ http = [pc |-> "idle", is_running_ |-> FALSE, ret |-> "none", https |-> 0, stop |-> "none",
               binds |-> 0,
               listens |-> 0, bind_ok |-> "none", listen_ok |-> "none"]
    /\ calls = 0

\* use(middleware)
Use(kind) ==
    /\ rpc.pc = "config"
    /\ Len(middlewares_) < MaxMiddlewares
    /\ middlewares_' = Append(middlewares_, kind)
    /\ UNCHANGED <<routes_, static_paths_, not_found_handler_, request, response, rpc,
                   log, sent>>
    /\ UNCHANGED nonRouteVars

\* route(method, path, handler)
Route(method, path, handler) ==
    /\ rpc.pc = "config"
    /\ routes_' = Append(routes_, [method |-> method, path |-> path, handler |-> handler])
    /\ UNCHANGED <<middlewares_, static_paths_, not_found_handler_, request, response,
                   rpc, log, sent>>
    /\ UNCHANGED nonRouteVars

\* serveStatic(path, directory)
ServeStatic(path, directory) ==
    /\ rpc.pc = "config"
    /\ path \notin DOMAIN static_paths_
    /\ static_paths_' = [p \in DOMAIN static_paths_ \cup {path} |->
                            IF p = path THEN directory ELSE static_paths_[p]]
    /\ UNCHANGED <<middlewares_, routes_, not_found_handler_, request, response, rpc,
                   log, sent>>
    /\ UNCHANGED nonRouteVars

\* setNotFoundHandler(handler): "custom" sets a 404 text response,
\* "status_only" the status code and nothing else, "throw" raises a
\* std::exception, "throw_other" something else
SetNotFoundHandler(kind) ==
    /\ rpc.pc = "config"
    /\ not_found_handler_ = "default"
    /\ not_found_handler_' = kind
    /\ UNCHANGED <<middlewares_, routes_, static_paths_, request, response, rpc, log, sent>>
    /\ UNCHANGED nonRouteVars

\* the callbacks that raise a failure
Throws(kind) == kind \in {"throw", "throw_other"}

\* processHttpRequest, line 344, and handleConnection, line 304: both catch
\* clauses name const std::exception&.  What they catch enters the error
\* handler; anything else leaves processHttpRequest, handleConnection and
\* the task that called it
AfterThrow(kind) ==
    [pc |-> IF kind = "throw" THEN "error" ELSE "uncaught", i |-> 0]

\* a chain that calls no middleware
AfterMiddleware_SkipChain(i) == [pc |-> "static", i |-> 0]

\* where processHttpRequest goes once middlewares 1..i-1 have returned true
AfterMiddleware(i) ==
    IF i > Len(middlewares_) THEN [pc |-> "static", i |-> 0]
                             ELSE [pc |-> "middleware", i |-> i]

\* handleConnection, lines 284-288: build the request and a fresh response
\* and enter processHttpRequest
HandleRequest(r) ==
    /\ rpc.pc = "config"
    /\ request' = r
    /\ response' = NewResponse
    /\ rpc' = AfterMiddleware(1)
    /\ UNCHANGED <<middlewares_, routes_, static_paths_, not_found_handler_, log, sent>>
    /\ UNCHANGED nonRouteVars

\* a chain that no middleware can end
Halts_Never(returned) == FALSE

\* runMiddlewares, line 351: a middleware that returns false ends the chain
Halts(returned) == ~returned

\* runMiddlewares, one turn of the loop; processHttpRequest returns when the
\* chain is halted and enters its catch block when the middleware throws
RunMiddleware ==
    /\ rpc.pc = "middleware"
    /\ LET kind == middlewares_[rpc.i] IN
         /\ response' = MiddlewareEffect(kind, response)
         /\ IF Throws(kind)
              THEN /\ log' = Append(log, [ev |-> "middleware", i |-> rpc.i, ret |-> kind])
                   /\ rpc' = AfterThrow(kind)
              ELSE /\ log' = Append(log, [ev |-> "middleware", i |-> rpc.i,
                                           ret |-> IF MiddlewareReturn(kind) THEN "true"
                                                                             ELSE "false"])
                   /\ rpc' = IF Halts(MiddlewareReturn(kind))
                               THEN [pc |-> "done", i |-> 0]
                               ELSE AfterMiddleware(rpc.i + 1)
    /\ UNCHANGED <<middlewares_, routes_, static_paths_, not_found_handler_, request, sent>>
    /\ UNCHANGED nonRouteVars

\* std::string::find: the first position (from 0) at which sub occurs in str,
\* -1 (npos) when it occurs nowhere
Find(str, sub) ==
    LET hits == {i \in 0..(Len(str) - Len(sub)) : SubSeq(str, i + 1, i + Len(sub)) = sub}
    IN  IF hits = {} THEN -1 ELSE CHOOSE i \in hits : \A j \in hits : i <= j

\* a test that accepts the prefix anywhere in the path
StartsWith_Anywhere(path, prefix) == Find(path, prefix) >= 0

\* line 321: request.getPath().find(prefix) == 0
StartsWith(path, prefix) == Find(path, prefix) = 0

\* the static prefixes the request path starts with
MatchingPrefixes == {p \in DOMAIN static_paths_ : StartsWith(request.path_, p)}

\* line 322: directory + path.substr(prefix.length())
StaticFilePath(prefix) ==
    static_paths_[prefix] \o SubSeq(request.path_, Len(prefix) + 1, Len(request.path_))

\* a handler that leaves the response as the middlewares left it
handleStaticFile_Ignore(file_path, res) == res

\* HttpServer::handleStaticFile
handleStaticFile(file_path, res) ==
    IF file_path \notin DOMAIN Files
      THEN setTextContent(setStatusCode(res, 404), "File not found")
      ELSE setFileContent(res, file_path)

\* processHttpRequest, lines 319-326: the first mapping, in the map's
\* iteration order, whose prefix the path starts with serves the request
CheckStatic ==
    /\ rpc.pc = "static"
    /\ IF MatchingPrefixes = {}
         THEN /\ rpc' = [pc |-> "route", i |-> 0]
              /\ UNCHANGED <<response, log>>
         ELSE \E p \in MatchingPrefixes :
                /\ response' = handleStaticFile(StaticFilePath(p), response)
                /\ log' = Append(log, [ev |-> "static", i |-> 0, ret |-> StaticFilePath(p)])
                /\ rpc' = [pc |-> "done", i |-> 0]
    /\ UNCHANGED <<middlewares_, routes_, static_paths_, not_found_handler_, request, sent>>
    /\ UNCHANGED nonRouteVars

\* the regular expression matchRoute builds: every '*' of the pattern
\* becomes '.', and the '*' appended at the end repeats the last character
\* of the result
RegexMatch(pattern, path) ==
    LET n == Len(pattern)
        Atom(i) == IF SubSeq(pattern, i, i) = "*" THEN "." ELSE SubSeq(pattern, i, i)
        Fits(i, c) == Atom(i) = "." \/ Atom(i) = c
    IN  /\ Len(path) >= n - 1
        /\ \A i \in 1..(n - 1) : Fits(i, SubSeq(path, i, i))
        /\ \A j \in n..Len(path) : Fits(n, SubSeq(path, j, j))

HasWildcard(pattern) == \E i \in 1..Len(pattern) : SubSeq(pattern, i, i) = "*"

\* HttpServer::matchRoute
matchRoute(pattern, path) ==
    \/ pattern = path
    \/ HasWildcard(pattern) /\ RegexMatch(pattern, path)

\* the strings of at most n characters of an alphabet
RECURSIVE StringsOver(_, _)
StringsOver(alphabet, n) ==
    IF n = 0 THEN {""}
    ELSE LET shorter == StringsOver(alphabet, n - 1)
         IN  shorter \cup {str \o c : str \in shorter, c \in alphabet}

\* the patterns passed to route() and the paths of requests
PatternInputs == StringsOver({"/", "a", "b", "*", "."}, MaxPattern)

PathInputs == StringsOver({"/", "a", "b", "."}, MaxPattern)

\* matchRoute is not being called
NoMatch == match = [pc |-> "idle", pattern |-> "", path |-> "", result |-> FALSE]

\* one call of matchRoute
CallMatchRoute ==
    /\ match.pc = "called"
    /\ match' = [match EXCEPT !.pc = "returned",
                              !.result = matchRoute(match.pattern, match.path)]
    /\ UNCHANGED <<hres, dec>>
    /\ UNCHANGED nonLibVars

\* line 331-332: the test a route must pass
RouteMatches(route) ==
    /\ route.method = request.method_ \/ route.method = "OPTIONS"
    /\ matchRoute(route.path, request.path_)

\* a scan that keeps the last route that passes
FirstMatch_Last ==
    LET hits == {j \in 1..Len(routes_) : RouteMatches(routes_[j])}
    IN  IF hits = {} THEN 0 ELSE CHOOSE j \in hits : \A k \in hits : k <= j

\* the first route, in registration order, that passes; 0 if none does
FirstMatch ==
    LET hits == {j \in 1..Len(routes_) : RouteMatches(routes_[j])}
    IN  IF hits = {} THEN 0 ELSE CHOOSE j \in hits : \A k \in hits : j <= k

\* a dispatch that never falls back to the not-found handler
NeedsNotFound_Never(route_found) == FALSE

\* line 340: the not-found handler runs when no route was found
NeedsNotFound(route_found) == ~route_found

\* HttpServer::defaultNotFoundHandler
defaultNotFoundHandler(req, res) ==
    setTextContent(setStatusCode(res, 404), "404 Not Found: " \o req.path_)

\* the not-found handler in place: the default one, or a caller's
NotFoundEffect(kind, req, res) ==
    CASE kind = "default" -> defaultNotFoundHandler(req, res)
      [] kind = "custom" -> setTextContent(setStatusCode(res, 404), "Custom 404")
      [] kind = "status_only" -> setStatusCode(res, 404)
      [] OTHER -> res

\* processHttpRequest, lines 328-342: run the first matching route's
\* handler, or the not-found handler
Dispatch ==
    /\ rpc.pc = "route"
    /\ LET j == FirstMatch
           route_found == j /= 0
           routed == IF route_found THEN HandlerEffect(routes_[j].handler, response)
                                    ELSE response
           routedLog == IF route_found
                          THEN Append(log, [ev |-> "route", i |-> j,
                                            ret |-> routes_[j].handler])
                          ELSE log
       IN  IF route_found /\ Throws(routes_[j].handler)
             THEN /\ response' = routed
                  /\ log' = routedLog
                  /\ rpc' = AfterThrow(routes_[j].handler)
             ELSE IF NeedsNotFound(route_found)
               THEN /\ response' = NotFoundEffect(not_found_handler_, request, routed)
                    /\ log' = Append(routedLog, [ev |-> "not_found", i |-> 0,
                                                 ret |-> not_found_handler_])
                    /\ rpc' = IF Throws(not_found_handler_)
                                 THEN AfterThrow(not_found_handler_)
                                 ELSE [pc |-> "done", i |-> 0]
               ELSE /\ response' = routed
                    /\ log' = routedLog
                    /\ rpc' = [pc |-> "done", i |-> 0]
    /\ UNCHANGED <<middlewares_, routes_, static_paths_, not_found_handler_, request, sent>>
    /\ UNCHANGED nonRouteVars

\* HttpServer::defaultErrorHandler
defaultErrorHandler(req, res) ==
    setTextContent(setStatusCode(res, 500), "Internal Server Error")

\* processHttpRequest, lines 344-346: the catch block
HandleError ==
    /\ rpc.pc = "error"
    /\ response' = defaultErrorHandler(request, response)
    /\ log' = Append(log, [ev |-> "error", i |-> 0, ret |-> "default"])
    /\ rpc' = [pc |-> "done", i |-> 0]
    /\ UNCHANGED <<middlewares_, routes_, static_paths_, not_found_handler_, request, sent>>
    /\ UNCHANGED nonRouteVars

\* handleConnection, lines 290-302: serialize the response and write it
Send ==
    /\ rpc.pc = "done"
    /\ sent' = toString(response)
    /\ rpc' = [pc |-> "sent", i |-> 0]
    /\ conn' = IF conn.ssl = "open" THEN [conn EXCEPT !.ssl = "closed"] ELSE conn
    /\ UNCHANGED <<middlewares_, routes_, static_paths_, not_found_handler_, request,
                   response, log, use_ssl_, ssl_server_>>
    /\ UNCHANGED nonHttpVars

\* the task the accept callback enqueued runs on a worker: handleConnection
\* starts on a freshly accepted connection (lines 222-228)
BeginConnection ==
    /\ conn.pc \in {"idle", "returned"}
    /\ conn.n < MaxConns
    /\ conn' = [pc |-> IF use_ssl_ /\ ssl_server_.made THEN "handshake" ELSE "read",
                n |-> conn.n + 1,
                ssl |-> "none", socket |-> "open", hs |-> "none", failed |-> conn.failed,
                closes |-> 0, term |-> "none"]
    /\ request' = [method_ |-> "UNKNOWN", path_ |-> "", is_valid_ |-> FALSE]
    /\ response' = NewResponse
    /\ rpc' = [pc |-> "config", i |-> 0]
    /\ log' = <<>>
    /\ sent' = "nothing"
    /\ UNCHANGED <<middlewares_, routes_, static_paths_, not_found_handler_, use_ssl_, ssl_server_>>
    /\ UNCHANGED nonHttpVars

\* SslServer::createSslConnection: what it may return, nullptr ("none") or
\* a session; SSL_new and SSL_set_fd may fail on an initialized server too
createSslConnection(ssl) ==
    IF ~ssl.is_initialized_ \/ ssl.ssl_context_ = "null"
      THEN {"none"}
      ELSE {"none", "open"}

\* what createSslConnection and performHandshake may do for a connection:
\* SSL_new / SSL_set_fd fail, SSL_accept fails, or both succeed
HandshakeOutcomes == {"create_failed", "handshake_failed", "ok"}

\* a server that takes every TLS session as established
HandshakeFailed_Never(ssl_connection, handshake_ok) == FALSE

\* line 233: !ssl_connection || !performHandshake(ssl_connection)
HandshakeFailed(ssl_connection, handshake_ok) ==
    ssl_connection = "none" \/ ~handshake_ok

\* handleConnection, lines 230-243: set up the TLS session; on failure close
\* the session if there is one, close the socket and return
Handshake(outcome) ==
    /\ conn.pc = "handshake"
    /\ LET ssl_connection == IF outcome = "create_failed" THEN "none" ELSE "open"
       IN  /\ ssl_connection \in createSslConnection(ssl_server_)
           /\ IF HandshakeFailed(ssl_connection, outcome = "ok")
               THEN conn' = [conn EXCEPT !.pc = "returned",
                                         !.ssl = IF ssl_connection = "open" THEN "closed"
                                                                            ELSE "none",
                                         !.socket = "closed",
                                         !.closes = @ + 1,
                                         !.hs = outcome,
                                         !.failed = conn.failed + 1]
               ELSE conn' = [conn EXCEPT !.pc = "read", !.ssl = ssl_connection,
                                         !.hs = outcome]
    /\ UNCHANGED <<routeVars, use_ssl_, ssl_server_>>
    /\ UNCHANGED nonHttpVars

\* handleConnection, lines 250-281: the peer sent nothing before the read
\* ended; close and return
ReadNothing ==
    /\ conn.pc = "read"
    /\ conn' = [conn EXCEPT !.pc = "returned",
                            !.ssl = IF conn.ssl = "open" THEN "closed" ELSE conn.ssl,
                            !.socket = "closed",
                            !.closes = @ + 1,
                            !.term = "missing"]
    /\ UNCHANGED <<routeVars, use_ssl_, ssl_server_>>
    /\ UNCHANGED nonHttpVars

\* handleConnection, lines 250-288: the bytes read are parsed into r and
\* processHttpRequest is entered with a fresh response
ReadRequest(r) ==
    /\ conn.pc = "read"
    /\ conn' = [conn EXCEPT !.pc = "process", !.term = "seen"]
    /\ request' = r
    /\ response' = NewResponse
    /\ rpc' = AfterMiddleware(1)
    /\ UNCHANGED <<middlewares_, routes_, static_paths_, not_found_handler_, log, sent,
                   use_ssl_, ssl_server_>>
    /\ UNCHANGED nonHttpVars

\* what HttpRequest makes of bytes that stop before the blank line: the
\* defaults of a request that failed to parse when the request line is
\* incomplete, the request itself when only header lines are missing
PartialRequests ==
    {[method_ |-> "UNKNOWN", path_ |-> "", is_valid_ |-> FALSE],
     [method_ |-> "GET", path_ |-> "/a", is_valid_ |-> TRUE]}

\* handleConnection, line 274: if (raw_request.empty())
GivesUp(raw_request_empty) == raw_request_empty

\* handleConnection, lines 250-288: some bytes arrived, then a read returned
\* 0 or -1 (end of stream, error, SO_RCVTIMEO) before "\r\n\r\n" was seen
ReadPartial(r) ==
    /\ conn.pc = "read"
    /\ IF GivesUp(FALSE)
         THEN /\ conn' = [conn EXCEPT !.pc = "returned",
                                      !.ssl = IF conn.ssl = "open" THEN "closed"
                                                                   ELSE conn.ssl,
                                      !.socket = "closed",
                                      !.closes = @ + 1,
                                      !.term = "missing"]
              /\ UNCHANGED <<request, response, rpc>>
         ELSE /\ conn' = [conn EXCEPT !.pc = "process", !.term = "missing"]
              /\ request' = r
              /\ response' = NewResponse
              /\ rpc' = AfterMiddleware(1)
    /\ UNCHANGED <<middlewares_, routes_, static_paths_, not_found_handler_, log, sent,
                   use_ssl_, ssl_server_>>
    /\ UNCHANGED nonHttpVars

\* handleConnection, line 308: close(client_socket) and return
CloseConnection ==
    /\ conn.pc = "process"
    /\ rpc.pc = "sent"
    /\ conn' = [conn EXCEPT !.pc = "returned", !.socket = "closed", !.closes = @ + 1]
    /\ UNCHANGED <<routeVars, use_ssl_, ssl_server_>>
    /\ UNCHANGED nonHttpVars

\* handleConnection, lines 291 and 304-308: building the response string
\* raises std::bad_alloc; the catch clause of the task takes it, nothing is
\* written and the socket is closed
CatchConnection ==
    /\ conn.pc = "process"
    /\ rpc.pc = "done"
    /\ conn' = [conn EXCEPT !.pc = "returned", !.socket = "closed", !.closes = @ + 1]
    /\ rpc' = [pc |-> "caught", i |-> 0]
    /\ UNCHANGED <<middlewares_, routes_, static_paths_, not_found_handler_, request,
                   response, log, sent, use_ssl_, ssl_server_>>
    /\ UNCHANGED nonHttpVars

\* a failure no catch clause names leaves handleConnection and the task; the
\* worker does not catch it either (ThreadPool::workerLoop) and
\* std::terminate ends the process
EscapeConnection ==
    /\ conn.pc = "process"
    /\ rpc.pc = "uncaught"
    /\ conn' = [conn EXCEPT !.pc = "escaped"]
    /\ terminated' = TRUE
    /\ UNCHANGED <<routeVars, use_ssl_, ssl_server_>>
    /\ UNCHANGED <<is_running_, threads_, tasks_, task, ctl, prod>>
    /\ UNCHANGED <<sockVars, parseVars, libVars>>

(* ------------------------------ HttpRequest --------------------------- *)

\* HttpRequest::HttpRequest(): method UNKNOWN, version HTTP/1.1, not valid
NewRequest ==
    [method_ |-> "UNKNOWN", path_ |-> "", version_ |-> "HTTP/1.1", body_ |-> "",
     headers_ |-> [n \in {} |-> ""], query_params_ |-> [n \in {} |-> ""],
     is_valid_ |-> FALSE]

\* the character at position i of str, from 1
CharAt(str, i) == SubSeq(str, i, i)

\* f[key] = value on an unordered_map
MapPut(f, key, value) ==
    [n \in DOMAIN f \cup {key} |-> IF n = key THEN value ELSE f[n]]

\* std::getline(stream, line) on the unread part of a stream: it fails at the
\* end of the input, else takes the characters up to the next '\n', which it
\* consumes
getline(unread) ==
    LET i == Find(unread, "\n")
    IN  IF unread = "" THEN [ok |-> FALSE, line |-> "", rest |-> ""]
        ELSE IF i < 0 THEN [ok |-> TRUE, line |-> unread, rest |-> ""]
        ELSE [ok |-> TRUE, line |-> SubSeq(unread, 1, i),
              rest |-> SubSeq(unread, i + 2, Len(unread))]

\* if (!line.empty() && line.back() == '\r') line.pop_back();
StripCR(line) ==
    IF Len(line) > 0 /\ CharAt(line, Len(line)) = "\r"
      THEN SubSeq(line, 1, Len(line) - 1)
      ELSE line

\* what operator>> skips between tokens
IsSpace(c) == c \in {" ", "\t", "\n", "\r", "\f"}

\* the whitespace-separated tokens of a line, as successive operator>> on a
\* std::istringstream read them
RECURSIVE Tokens(_)
Tokens(line) ==
    LET starts == {i \in 1..Len(line) : ~IsSpace(CharAt(line, i))}
    IN  IF starts = {} THEN <<>>
        ELSE LET b == CHOOSE i \in starts : \A j \in starts : i <= j
                 stops == {i \in b..Len(line) : IsSpace(CharAt(line, i))}
                 e == IF stops = {} THEN Len(line) + 1
                                    ELSE CHOOSE i \in stops : \A j \in stops : i <= j
             IN  <<SubSeq(line, b, e - 1)>> \o Tokens(SubSeq(line, e, Len(line)))

\* a conversion that leaves every letter as it is
toupper_Identity(c) == c

\* ::toupper on one character
toupper(c) ==
    LET i == Find("abcdefghijklmnopqrstuvwxyz", c)
    IN  IF Len(c) = 1 /\ i >= 0
          THEN CharAt("ABCDEFGHIJKLMNOPQRSTUVWXYZ", i + 1)
          ELSE c

\* std::transform(..., ::toupper)
RECURSIVE ToUpperString(_)
ToUpperString(str) ==
    IF str = "" THEN ""
    ELSE toupper(CharAt(str, 1)) \o ToUpperString(SubSeq(str, 2, Len(str)))

\* HttpRequest::stringToMethod
stringToMethod(method_str) ==
    LET upper_method == ToUpperString(method_str)
    IN  IF upper_method \in {"GET", "POST", "PUT", "DELETE", "HEAD", "OPTIONS", "PATCH"}
          THEN upper_method
          ELSE "UNKNOWN"

\* the value of a hexadecimal digit, -1 for any other character
HexDigit(c) ==
    LET i == Find("0123456789abcdef", c)
        j == Find("0123456789ABCDEF", c)
    IN  IF Len(c) /= 1 THEN -1 ELSE IF i >= 0 THEN i ELSE j

\* std::stoi(hex, nullptr, 16) on the two characters after a '%': leading
\* white space and one sign are skipped, then the hexadecimal digits that
\* follow are read; with no digit it throws, which the record tells
stoi16(hex) ==
    LET a == HexDigit(CharAt(hex, 1))
        b == HexDigit(CharAt(hex, 2))
    IN  IF a >= 0 THEN [ok |-> TRUE, value |-> IF b >= 0 THEN 16 * a + b ELSE a]
        ELSE IF (IsSpace(CharAt(hex, 1)) \/ CharAt(hex, 1) = "+") /\ b >= 0
          THEN [ok |-> TRUE, value |-> b]
        ELSE IF CharAt(hex, 1) = "-" /\ b >= 0
          THEN [ok |-> TRUE, value |-> 0 - b]
        ELSE [ok |-> FALSE, value |-> 0]

\* static_cast<char>(value), for the characters a string of the model can
\* hold; "?" stands for every other byte
Chr(value) ==
    IF value \in 32..33 THEN CharAt(" !", value - 31)
    ELSE IF value \in 35..91
      THEN CharAt("#$%&'()*+,-./0123456789:;<=>?@ABCDEFGHIJKLMNOPQRSTUVWXYZ[", value - 34)
    ELSE IF value \in 93..95 THEN CharAt("]^_", value - 92)
    ELSE IF value \in 97..126
      THEN CharAt("abcdefghijklmnopqrstuvwxyz{|}~", value - 96)
    ELSE "?"

\* HttpRequest::urlDecode
RECURSIVE urlDecode(_)
urlDecode(encoded) ==
    IF encoded = "" THEN ""
    ELSE IF CharAt(encoded, 1) = "%" /\ 3 <= Len(encoded)
      THEN LET n == stoi16(SubSeq(encoded, 2, 3))
           IN  IF n.ok THEN Chr(n.value) \o urlDecode(SubSeq(encoded, 4, Len(encoded)))
                       ELSE "%" \o urlDecode(SubSeq(encoded, 2, Len(encoded)))
    ELSE IF CharAt(encoded, 1) = "+"
      THEN " " \o urlDecode(SubSeq(encoded, 2, Len(encoded)))
    ELSE CharAt(encoded, 1) \o urlDecode(SubSeq(encoded, 2, Len(encoded)))

\* what parse hands to urlDecode: a piece of the second token of the request
\* line, which holds no white space
EncodedInputs == StringsOver({"%", "+", "-", "4", "1", "a", "G"}, MaxEncoded)

\* urlDecode is not being called
NoDecode == dec = [pc |-> "idle", encoded |-> "", decoded |-> ""]

\* one call of urlDecode
CallUrlDecode ==
    /\ dec.pc = "called"
    /\ dec' = [dec EXCEPT !.pc = "returned", !.decoded = urlDecode(dec.encoded)]
    /\ UNCHANGED <<hres, match>>
    /\ UNCHANGED nonLibVars

\* HttpRequest::parseQueryParams: the pairs between '&', each split at its
\* first '=', added to the map params
RECURSIVE parseQueryParams(_, _)
parseQueryParams(query_string, params) ==
    IF query_string = "" THEN params
    ELSE LET amp == Find(query_string, "&")
             pair == IF amp < 0 THEN query_string ELSE SubSeq(query_string, 1, amp)
             rest == IF amp < 0 THEN ""
                                ELSE SubSeq(query_string, amp + 2, Len(query_string))
             eq_pos == Find(pair, "=")
             key == IF eq_pos < 0 THEN urlDecode(pair)
                                  ELSE urlDecode(SubSeq(pair, 1, eq_pos))
             value == IF eq_pos < 0 THEN ""
                                    ELSE urlDecode(SubSeq(pair, eq_pos + 2, Len(pair)))
         IN  parseQueryParams(rest, MapPut(params, key, value))

\* erase the leading and trailing blanks and tabs
RECURSIVE Trim(_)
Trim(str) ==
    IF str = "" THEN ""
    ELSE IF CharAt(str, 1) \in {" ", "\t"} THEN Trim(SubSeq(str, 2, Len(str)))
    ELSE IF CharAt(str, Len(str)) \in {" ", "\t"} THEN Trim(SubSeq(str, 1, Len(str) - 1))
    ELSE str

\* parse, lines 70-82, with parseHeaders: read lines up to the first empty
\* one; each line with a ':' gives a header
RECURSIVE ReadHeaders(_, _)
ReadHeaders(unread, headers) ==
    LET g == getline(unread)
        line == StripCR(g.line)
        colon_pos == Find(line, ":")
    IN  IF ~g.ok \/ line = "" THEN [headers |-> headers, rest |-> g.rest]
        ELSE IF colon_pos < 0 THEN ReadHeaders(g.rest, headers)
        ELSE ReadHeaders(g.rest,
                         MapPut(headers, Trim(SubSeq(line, 1, colon_pos)),
                                Trim(SubSeq(line, colon_pos + 2, Len(line)))))

\* parse, lines 87-90: every remaining line followed by "\n"
RECURSIVE ReadBody(_)
ReadBody(unread) ==
    LET g == getline(unread)
    IN  IF ~g.ok THEN "" ELSE g.line \o "\n" \o ReadBody(g.rest)

\* the byte sequences handed to parse: a request line of the three tokens,
\* then the headers and the body, as text with the tokens it was built from
WellFormedInputs ==
    {[method |-> m, path |-> p, version |-> v,
      text |-> m \o " " \o p \o " " \o v \o t]
        : m \in {"GET", "get", "Get", "post", "PUT", "Delete", "head", "OPTIONS",
                 "patch", "INVALID", "GETS", "trace"},
          p \in {"/", "/a%20b?x=1&y", "/100%"},
          v \in {"HTTP/1.1", "HTTP/2"},
          t \in {"", "\r\nHost: a\r\n\r\nbody\n", "\nX-Y:  z \n"}}

MalformedInputs ==
    {[method |-> "", path |-> "", version |-> "", text |-> t]
        : t \in {"", "\r\n", "GET /", "GET / http/1.1\r\n", "GET / XHTTP/1.1",
                 "\nGET / HTTP/1.1", "Invalid HTTP Request",
                 "GET / HTTP/1.1 extra\r\nHost: a\r\n\r\n"}}

Inputs == WellFormedInputs \cup MalformedInputs

\* an early return that also empties the version
MarkInvalid_ClearVersion(req) == [req EXCEPT !.is_valid_ = FALSE, !.version_ = ""]

\* parse, lines 17-18, 26-27, 39-40, 45-46, 51-52: is_valid_ = false before
\* each early return
MarkInvalid(req) == [req EXCEPT !.is_valid_ = FALSE]

\* parse, lines 16-56: the request line
ParseRequestLine ==
    /\ ppc.pc = "start"
    /\ LET g == getline(input.text)
           tokens == Tokens(StripCR(g.line))
       IN  IF input.text = "" \/ ~g.ok \/ Len(tokens) < 3
             THEN /\ hreq' = MarkInvalid(hreq)
                  /\ ppc' = [pc |-> "returned", ret |-> "false", unread |-> g.rest,
                             target |-> ""]
           ELSE IF Find(tokens[3], "HTTP/") /= 0
             THEN /\ hreq' = MarkInvalid(hreq)
                  /\ ppc' = [pc |-> "returned", ret |-> "false", unread |-> g.rest,
                             target |-> ""]
           ELSE /\ hreq' = [hreq EXCEPT !.method_ = stringToMethod(tokens[1]),
                                        !.version_ = tokens[3]]
                /\ ppc' = [pc |-> "path", ret |-> "none", unread |-> g.rest,
                           target |-> tokens[2]]
    /\ UNCHANGED input
    /\ UNCHANGED nonParseVars

\* parse, lines 58-68: the path, the query parameters, the URL decoding
ParsePath ==
    /\ ppc.pc = "path"
    /\ LET query_pos == Find(ppc.target, "?")
       IN  hreq' = IF query_pos >= 0
                     THEN [hreq EXCEPT
                             !.path_ = urlDecode(SubSeq(ppc.target, 1, query_pos)),
                             !.query_params_ =
                                parseQueryParams(SubSeq(ppc.target, query_pos + 2,
                                                        Len(ppc.target)), @)]
                     ELSE [hreq EXCEPT !.path_ = urlDecode(ppc.target)]
    /\ ppc' = [ppc EXCEPT !.pc = "headers"]
    /\ UNCHANGED input
    /\ UNCHANGED nonParseVars

\* parse, lines 70-84: the headers
ParseHeaders ==
    /\ ppc.pc = "headers"
    /\ LET h == ReadHeaders(ppc.unread, hreq.headers_)
       IN  /\ hreq' = [hreq EXCEPT !.headers_ = h.headers]
           /\ ppc' = [ppc EXCEPT !.pc = "body", !.unread = h.rest]
    /\ UNCHANGED input
    /\ UNCHANGED nonParseVars

\* parse, lines 86-99: the body, without its last "\n"; the request is valid
ParseBody ==
    /\ ppc.pc = "body"
    /\ LET body == ReadBody(ppc.unread)
       IN  hreq' = [hreq EXCEPT
                      !.body_ = IF body /= "" THEN SubSeq(body, 1, Len(body) - 1) ELSE "",
                      !.is_valid_ = TRUE]
    /\ ppc' = [ppc EXCEPT !.pc = "returned", !.ret = "true", !.unread = ""]
    /\ UNCHANGED input
    /\ UNCHANGED nonParseVars

(* ----------------------------- SocketServer --------------------------- *)

\* the systems the build runs on.  They differ in two things the code
\* relies on: whether SO_REUSEADDR lets a second socket bind an address that
\* a socket which is not listening holds (Linux: yes), and whether close()
\* makes an accept() blocked on the descriptor return (Linux: no)
Platforms == {"linux", "bsd"}

\* the arguments bind is called with
BindArgs ==
    {[port |-> 9995, host |-> "127.0.0.1"],
     [port |-> 9995, host |-> ""],
     [port |-> -1, host |-> "127.0.0.1"],
     [port |-> 0, host |-> "invalid_host"]}

\* htons(port): the int is converted to uint16_t
htons(port) == port % 65536

\* the pieces of str between its dots
RECURSIVE SplitDots(_)
SplitDots(str) ==
    LET i == Find(str, ".")
    IN  IF i < 0 THEN <<str>>
                 ELSE <<SubSeq(str, 1, i)>> \o SplitDots(SubSeq(str, i + 2, Len(str)))

\* the value of a decimal digit, -1 for any other character
DigitValue(c) ==
    LET hits == {d \in 0..9 : ToString(d) = c}
    IN  IF hits = {} THEN -1 ELSE CHOOSE d \in hits : TRUE

\* the value of a string of decimal digits, -1 if it holds anything else
RECURSIVE DecimalValue(_)
DecimalValue(str) ==
    IF Len(str) = 0 THEN 0
    ELSE LET high == DecimalValue(SubSeq(str, 1, Len(str) - 1))
             low == DigitValue(SubSeq(str, Len(str), Len(str)))
         IN  IF high < 0 \/ low < 0 THEN -1 ELSE 10 * high + low

\* inet_pton(AF_INET, host, ...) > 0: four decimal fields of one to three
\* digits, each at most 255, separated by dots
inet_pton(host) ==
    LET fields == SplitDots(host)
    IN  /\ Len(fields) = 4
        /\ \A k \in 1..4 : /\ Len(fields[k]) \in 1..3
                           /\ DecimalValue(fields[k]) \in 0..255

\* two sockets claim the same endpoint: the same nonzero port, and the same
\* address or the wildcard address on either side
Overlaps(ip, port, s) ==
    /\ s.st \in {"bound", "listening"}
    /\ port /= 0
    /\ s.port = port
    /\ s.ip = ip \/ s.ip = "any" \/ ip = "any"

\* ::bind(fd, addr) >= 0 for a socket with SO_REUSEADDR set, as every socket
\* of createSocket has: the endpoint must not belong to a listening socket,
\* nor, off Linux, to any other socket
OsBindOk(f, ip, port) ==
    \A i \in 1..Len(f) :
        Overlaps(ip, port, f[i]) => (platform = "linux" /\ f[i].st /= "listening")

\* ::listen(fd, backlog) >= 0: the descriptor is an open socket and no other
\* socket listens on its endpoint; an unbound socket is given a free port
OsListenOk(fd) ==
    /\ fd \in 1..Len(fds)
    /\ fds[fd].st \in {"unbound", "bound", "listening"}
    /\ \A j \in 1..Len(fds) :
          (j /= fd /\ fds[j].st = "listening") => ~Overlaps(fds[fd].ip, fds[fd].port, fds[j])

\* a closeSocket that leaves the descriptor open
closeSocket_Skip(s, f) == [sock |-> s, fds |-> f]

\* SocketServer::closeSocket, on listener record s and descriptor table f
closeSocket(s, f) ==
    IF s.server_socket_ >= 0
      THEN [sock |-> [s EXCEPT !.server_socket_ = -1],
            fds |-> [f EXCEPT ![s.server_socket_].st = "closed"]]
      ELSE [sock |-> s, fds |-> f]

\* SocketServer::bind, with createSocket: the listener record, the descriptor
\* table and the return value it leaves.  socket() fails when the process
\* has no descriptor left
bind(l, port, host) ==
    IF Len(fds) >= MaxFds
      THEN [sock |-> [sock[l] EXCEPT !.server_socket_ = -1], fds |-> fds, ok |-> FALSE]
      ELSE
        LET fd == Len(fds) + 1
            f1 == Append(fds, [st |-> "unbound", ip |-> "any", port |-> 0])
            s1 == [sock[l] EXCEPT !.server_socket_ = fd, !.port_ = port, !.host_ = host]
            any == host = "0.0.0.0" \/ host = ""
            ip == IF any THEN "any" ELSE host
            closed == closeSocket(s1, f1)
        IN  IF ~any /\ ~inet_pton(host)
              THEN [sock |-> closed.sock, fds |-> closed.fds, ok |-> FALSE]
            ELSE IF ~OsBindOk(f1, ip, htons(port))
              THEN [sock |-> closed.sock, fds |-> closed.fds, ok |-> FALSE]
            ELSE [sock |-> [s1 EXCEPT !.bound = TRUE],
                  fds |-> [f1 EXCEPT ![fd] = [st |-> "bound", ip |-> ip,
                                              port |-> htons(port)]],
                  ok |-> TRUE]

\* SocketServer::listen
listen(l) ==
    IF sock[l].server_socket_ < 0
      THEN [sock |-> sock[l], fds |-> fds, ok |-> FALSE]
    ELSE IF ~OsListenOk(sock[l].server_socket_)
      THEN [sock |-> sock[l], fds |-> fds, ok |-> FALSE]
    ELSE [sock |-> [sock[l] EXCEPT !.is_running_ = TRUE],
          fds |-> [fds EXCEPT ![sock[l].server_socket_].st = "listening"],
          ok |-> TRUE]

\* the record of a call on listener l
Called(l, op, port, host, ok) ==
    [op |-> op, ok |-> ok, port |-> port, host |-> host, pre |-> sock[l].bound]

\* listener 2: bind(port, host) called from outside
CallBind(port, host) ==
    /\ calls < MaxCalls
    /\ ~sock[2].stopping
    /\ LET r == bind(2, port, host)
       IN  /\ sock' = [sock EXCEPT ![2] = [r.sock EXCEPT
                                             !.call = Called(2, "bind", port, host, r.ok)]]
           /\ fds' = r.fds
    /\ calls' = calls + 1
    /\ UNCHANGED <<acc, clients, http, platform>>
    /\ UNCHANGED nonSockVars

\* listener 2: listen() called from outside
CallListen ==
    /\ calls < MaxCalls
    /\ ~sock[2].stopping
    /\ LET r == listen(2)
       IN  /\ sock' = [sock EXCEPT ![2] = [r.sock EXCEPT
                                             !.call = Called(2, "listen", 0, "", r.ok)]]
           /\ fds' = r.fds
    /\ calls' = calls + 1
    /\ UNCHANGED <<acc, clients, http, platform>>
    /\ UNCHANGED nonSockVars

\* SocketServer::stop, line 106: is_running_ = false
StopFlag(l) ==
    /\ calls < MaxCalls
    /\ ~sock[l].stopping
    /\ sock' = [sock EXCEPT ![l].is_running_ = FALSE,
                            ![l].stopping = TRUE,
                            ![l].call = Called(l, "stop", 0, "", TRUE)]
    /\ calls' = calls + 1
    /\ UNCHANGED <<fds, acc, clients, http, platform>>
    /\ UNCHANGED nonSockVars

\* SocketServer::stop, line 107: closeSocket()
StopClose(l) ==
    /\ sock[l].stopping
    /\ LET r == closeSocket(sock[l], fds)
       IN  /\ sock' = [sock EXCEPT ![l] = [r.sock EXCEPT !.stopping = FALSE,
                                                         !.bound = FALSE]]
           /\ fds' = r.fds
    /\ UNCHANGED <<acc, clients, http, platform, calls>>
    /\ UNCHANGED nonSockVars

\* a start that goes on after a failed bind
BindFailed_Never(ok) == FALSE

\* HttpServer::start, line 49: !socket_server_->bind(port, host)
BindFailed(ok) == ~ok

\* a start that goes on after a failed listen
ListenFailed_Never(ok) == FALSE

\* HttpServer::start, line 54: !socket_server_->listen()
ListenFailed(ok) == ~ok

\* HttpServer::start, lines 39-52: return false if running, else bind
HttpStartBind(port, host) ==
    /\ http.pc = "idle"
    /\ ~http.is_running_
    /\ ~sock[1].stopping
    /\ LET r == bind(1, port, host)
       IN  /\ sock' = [sock EXCEPT ![1] = [r.sock EXCEPT
                                             !.call = Called(1, "bind", port, host, r.ok)]]
           /\ fds' = r.fds
           /\ http' = [http EXCEPT
                         !.pc = IF BindFailed(r.ok) THEN "returned" ELSE "listen",
                         !.ret = IF BindFailed(r.ok) THEN "false" ELSE "none",
                         !.binds = @ + 1,
                         !.bind_ok = IF r.ok THEN "true" ELSE "false"]
    /\ UNCHANGED <<acc, clients, platform, calls>>
    /\ UNCHANGED nonSockVars

\* how SslServer::initialize may go: SSL_CTX_new fails, the certificate
\* file or the key file does not load, the key does not match the
\* certificate, or all of it works
TlsInitOutcomes == {"no_context", "bad_certificate", "bad_key", "mismatch", "ok"}

\* SslServer::SslServer()
NewSslServer == [made |-> TRUE, is_initialized_ |-> FALSE, ssl_context_ |-> "null",
                 init |-> "none"]

\* SslServer::cleanup
cleanup(ssl) == [ssl EXCEPT !.ssl_context_ = "null", !.is_initialized_ = FALSE]

\* SslServer::initialize, on a server just made
initialize(ssl, outcome) ==
    LET created == [ssl EXCEPT !.ssl_context_ = IF outcome = "no_context" THEN "null"
                                                                          ELSE "ctx",
                               !.init = outcome]
    IN  IF outcome = "no_context" THEN created
        ELSE IF outcome \in {"bad_certificate", "bad_key"} THEN cleanup(created)
        ELSE IF outcome = "mismatch" THEN cleanup(created)
        ELSE [created EXCEPT !.is_initialized_ = TRUE]

\* a startHttps that goes on whatever initialize returned
InitFailed_Never(ssl) == FALSE

\* startHttps, line 93: !ssl_server_->initialize(cert_file, key_file)
InitFailed(ssl) == ~ssl.is_initialized_

\* HttpServer::startHttps: return false if running; make and initialize the
\* SslServer and return false if that fails; else set use_ssl_ and go into
\* start(port, host), whose bind is made on the same step
StartHttps(outcome, port, host) ==
    /\ conn = NoConn
    /\ http.pc \in {"idle", "returned"}
    /\ ~http.is_running_
    /\ http.https < MaxCalls
    /\ ~sock[1].stopping
    /\ LET made == initialize(NewSslServer, outcome)
           r == bind(1, port, host)
       IN  /\ ssl_server_' = made
           /\ IF InitFailed(made)
                THEN /\ http' = [http EXCEPT !.pc = "returned", !.ret = "false",
                                             !.https = @ + 1]
                     /\ UNCHANGED <<use_ssl_, sock, fds>>
                ELSE /\ use_ssl_' = TRUE
                     /\ sock' = [sock EXCEPT ![1] = [r.sock EXCEPT
                                   !.call = Called(1, "bind", port, host, r.ok)]]
                     /\ fds' = r.fds
                     /\ http' = [http EXCEPT
                                   !.pc = IF BindFailed(r.ok) THEN "returned" ELSE "listen",
                                   !.ret = IF BindFailed(r.ok) THEN "false" ELSE "none",
                                   !.https = @ + 1,
                                   !.binds = @ + 1,
                                   !.bind_ok = IF r.ok THEN "true" ELSE "false"]
    /\ UNCHANGED <<acc, clients, platform, calls>>
    /\ UNCHANGED <<poolVars, routeVars, conn, parseVars, libVars>>

\* HttpServer::start, lines 54-57
HttpStartListen ==
    /\ http.pc = "listen"
    /\ ~sock[1].stopping
    /\ LET r == listen(1)
       IN  /\ sock' = [sock EXCEPT ![1] = [r.sock EXCEPT
                                             !.call = Called(1, "listen", 0, "", r.ok)]]
           /\ fds' = r.fds
           /\ http' = [http EXCEPT
                         !.pc = IF ListenFailed(r.ok) THEN "returned" ELSE "pool",
                         !.ret = IF ListenFailed(r.ok) THEN "false" ELSE "none",
                         !.listens = @ + 1,
                         !.listen_ok = IF r.ok THEN "true" ELSE "false"]
    /\ UNCHANGED <<acc, clients, platform, calls>>
    /\ UNCHANGED nonSockVars

\* HttpServer::start, lines 59-60 and 73: thread_pool_->start(), the flag,
\* and the call of socket_server_->accept
HttpStartPool ==
    /\ http.pc = "pool"
    /\ is_running_' = TRUE
    /\ threads_' = StartThreads
    /\ http' = [http EXCEPT !.pc = "accept", !.is_running_ = TRUE]
    /\ acc' = [acc EXCEPT !.pc = "entry"]
    /\ UNCHANGED <<sock, fds, clients, platform, calls>>
    /\ UNCHANGED <<tasks_, task, ctl, prod, terminated>>
    /\ UNCHANGED <<routeVars, connVars, parseVars, libVars>>

\* SocketServer::accept, lines 78-80
AcceptEntry ==
    /\ acc.pc = "entry"
    /\ acc' = [acc EXCEPT !.pc = IF ~sock[1].is_running_ \/ sock[1].server_socket_ < 0
                                   THEN "returned" ELSE "loop"]
    /\ UNCHANGED <<sock, fds, clients, http, platform, calls>>
    /\ UNCHANGED nonSockVars

\* line 82: while (is_running_)
AcceptLoop ==
    /\ acc.pc = "loop"
    /\ acc' = [acc EXCEPT !.pc = IF sock[1].is_running_ THEN "call" ELSE "returned"]
    /\ UNCHANGED <<sock, fds, clients, http, platform, calls>>
    /\ UNCHANGED nonSockVars

\* line 86: ::accept(server_socket_, ...) is entered.  On -1 or a descriptor
\* that is not a listening socket it fails at once, else the thread blocks
AcceptCall ==
    /\ acc.pc = "call"
    /\ LET fd == sock[1].server_socket_
       IN  acc' = IF fd >= 1 /\ fds[fd].st = "listening"
                    THEN [acc EXCEPT !.pc = "blocked", !.fd = fd]
                    ELSE [acc EXCEPT !.pc = "error", !.fd = fd]
    /\ UNCHANGED <<sock, fds, clients, http, platform, calls>>
    /\ UNCHANGED nonSockVars

\* a client connects and ::accept returns its socket.  On Linux the socket
\* accept is blocked on lives on after close() for as long as the call lasts
AcceptClient ==
    /\ acc.pc = "blocked"
    /\ Len(clients) < MaxClients
    /\ \/ fds[acc.fd].st = "listening"
       \/ fds[acc.fd].st = "closed" /\ platform = "linux"
    /\ clients' = Append(clients, [handled |-> 0, closed |-> 0, running |-> "none"])
    /\ acc' = [acc EXCEPT !.pc = "got", !.cur = Len(clients) + 1]
    /\ UNCHANGED <<sock, fds, http, platform, calls>>
    /\ UNCHANGED nonSockVars

\* the descriptor was closed under the blocked ::accept: off Linux the call
\* returns an error; on Linux it stays blocked
AcceptWake ==
    /\ acc.pc = "blocked"
    /\ fds[acc.fd].st = "closed"
    /\ platform /= "linux"
    /\ acc' = [acc EXCEPT !.pc = "error"]
    /\ UNCHANGED <<sock, fds, clients, http, platform, calls>>
    /\ UNCHANGED nonSockVars

\* lines 88-94: client_socket < 0
AcceptError ==
    /\ acc.pc = "error"
    /\ acc' = [acc EXCEPT !.pc = IF sock[1].is_running_ THEN "loop" ELSE "returned"]
    /\ UNCHANGED <<sock, fds, clients, http, platform, calls>>
    /\ UNCHANGED nonSockVars

\* an accept loop that hands every connection to the handler
StillRunning_Always(running) == TRUE

\* line 96: if (is_running_)
StillRunning(running) == running

\* lines 96-101: hand the connection to the handler, or close it and leave
\* the loop.  running records the value of is_running_ the test read
AcceptDispatch ==
    /\ acc.pc = "got"
    /\ IF StillRunning(sock[1].is_running_)
         THEN /\ clients' = [clients EXCEPT ![acc.cur].handled = @ + 1,
                                            ![acc.cur].running = IF sock[1].is_running_ THEN "true"
                                                                                       ELSE "false"]
              /\ acc' = [acc EXCEPT !.pc = "loop"]
         ELSE /\ clients' = [clients EXCEPT ![acc.cur].closed = @ + 1,
                                            ![acc.cur].running = IF sock[1].is_running_ THEN "true"
                                                                                       ELSE "false"]
              /\ acc' = [acc EXCEPT !.pc = "returned"]
    /\ UNCHANGED <<sock, fds, http, platform, calls>>
    /\ UNCHANGED nonSockVars

\* HttpServer::stop, lines 117-121, called from another thread than start:
\* return if not running, else clear the flag.  The calls that follow,
\* socket_server_->stop() and thread_pool_->stop(), are the steps of those
\* two functions
HttpStop ==
    /\ http.is_running_
    /\ http' = [http EXCEPT !.is_running_ = FALSE, !.stop = "called"]
    /\ UNCHANGED <<sock, fds, acc, clients, platform, calls>>
    /\ UNCHANGED nonSockVars

\* HttpServer::stop, lines 124-126: socket_server_->stop() is entered
HttpStopSocket ==
    /\ http.stop = "called"
    /\ sock[1].is_running_
    /\ StopFlag(1)

\* HttpServer::stop, lines 128-130: thread_pool_->stop() is entered once
\* socket_server_->stop() has returned
HttpStopPool ==
    /\ http.stop = "called"
    /\ ~sock[1].is_running_
    /\ ~sock[1].stopping
    /\ ctl.ops = 0
    /\ StopBegin

\* the connections the accept loop has handed to its handler
HandlerCalls == Cardinality({c \in 1..Len(clients) : clients[c].handled = 1})

\* HttpServer::start, lines 72-76: the handler given to accept enqueues
\* handleConnection(client_socket); the accept thread is the caller of
\* enqueue, once for each connection handed over
HandlerEnqueue ==
    /\ prod.calls < HandlerCalls
    /\ EnqueueCheck

\* SocketServer::accept, line 82: the loop test, made once the handler has
\* returned if the connection before was handed to it
AcceptNext ==
    /\ prod.pc = "idle"
    /\ prod.calls = HandlerCalls
    /\ AcceptLoop

\* HttpServer::start, line 82: accept has returned, start returns true
HttpStartReturn ==
    /\ http.pc = "accept"
    /\ acc.pc = "returned"
    /\ http' = [http EXCEPT !.pc = "returned", !.ret = "true"]
    /\ UNCHANGED <<sock, fds, acc, clients, platform, calls>>
    /\ UNCHANGED nonSockVars

(* --------------------------- specifications --------------------------- *)

\* no request is being parsed
NoParse ==
    /\ input = [method |-> "", path |-> "", version |-> "", text |-> ""]
    /\ hreq = NewRequest
    /\ ppc = [pc |-> "idle", ret |-> "none", unread |-> "", target |-> ""]

\* no call is made directly on an HttpResponse, on urlDecode or on matchRoute
NoLib == NoResponseUse /\ NoDecode /\ NoMatch

\* the worker pool on its own: the server part stays as constructed
Init == PoolInit /\ ServerInit /\ platform = "linux" /\ NoParse /\ NoLib

PoolNext ==
    \/ Start
    \/ StopBegin
    \/ StopNotify
    \/ StopJoin
    \/ \E n \in 0..MaxThreads : ResizeBegin(n)
    \/ ResizeAlloc
    \/ EnqueueCheck
    \/ EnqueuePush
    \/ EnqueueNotify
    \/ \E w \in Workers : Worker(w)
    \/ \E w \in Workers : W_SpuriousWake(w)

Next == PoolNext

Spec == Init /\ [][Next]_vars

\* the steps of calls that are in progress: the operating system schedules
\* every thread that can run
Scheduled ==
    \/ StopNotify
    \/ StopJoin
    \/ ResizeAlloc
    \/ EnqueuePush
    \/ EnqueueNotify
    \/ \E w \in Workers : Worker(w)

\* a thread that can take a step eventually takes it; a thread that asks for
\* queue_mutex_ again and again eventually gets it.  Nothing makes the
\* callers begin a new call, and nothing makes a wait return spuriously.
Fairness ==
    /\ WF_vars(StopNotify)
    /\ WF_vars(StopJoin)
    /\ WF_vars(ResizeAlloc)
    /\ SF_vars(EnqueuePush)
    /\ WF_vars(EnqueueNotify)
    /\ \A w \in 1..MaxThreads :
          /\ WF_vars(w \in Workers /\ (W_Loop(w) \/ W_Wait(w) \/ W_Check(w)))
          /\ WF_vars(w \in Workers /\ \E k \in TaskKinds : W_Run(w, k))
          /\ SF_vars(w \in Workers /\ W_Lock(w))

FairSpec == Spec /\ Fairness

\* one request through the routing engine of a configured server: the pool
\* part stays as constructed
ServerQuiet ==
    /\ ServerInit
    /\ platform = "linux"
    /\ NoParse
    /\ is_running_ = FALSE
    /\ threads_ = <<NoThread>>
    /\ tasks_ = <<>>
    /\ task = [t \in TaskIds |-> NoTask]
    /\ ctl = [pc |-> "idle", op |-> "none", arg |-> 0, n |-> 0, was |-> FALSE,
              ops |-> 0, started |-> FALSE, last |-> "none"]
    /\ prod = [pc |-> "idle", cur |-> 0, calls |-> 0]
    /\ terminated = FALSE

RouteInit == ServerQuiet /\ NoLib

RouteNext ==
    \/ \E k \in MiddlewareKinds : Use(k)
    \/ \E m \in RouteMethods, p \in RoutePatterns, h \in HandlerKinds :
          Len(routes_) < MaxRoutes /\ Route(m, p, h)
    \/ \E p \in StaticPrefixes : ServeStatic(p, "./public")
    \/ \E k \in {"custom", "throw", "throw_other"} : SetNotFoundHandler(k)
    \/ \E r \in Requests : HandleRequest(r)
    \/ RunMiddleware
    \/ CheckStatic
    \/ Dispatch
    \/ HandleError
    \/ Send

RouteSpec == RouteInit /\ [][RouteNext]_vars

\* request targets that name the parent of the directory they are mapped
\* to, with the dots written as they are or percent-encoded
TraversalTargets == {"/s/../x.txt", "/s/%2e%2e/x.txt"}

\* the requests sent to a server with a route table; parse stores the
\* decoded path (http_request.cpp, line 69)
TableRequests ==
    [method_ : {"GET", "POST", "OPTIONS"},
     path_ : {"/a", "/b", "/s/f.txt", "/s/f.bin", "/s/none"}
               \cup {urlDecode(t) : t \in TraversalTargets},
     is_valid_ : {TRUE}]

\* one request through a server with several routes, static mappings and
\* middlewares that all return true
TableNext ==
    \/ Len(middlewares_) < MaxMiddlewares /\ Use("tag")
    \/ \E m \in RouteMethods, p \in RoutePatterns, h \in {"ok", "throw"} :
          Len(routes_) < MaxTableRoutes /\ Route(m, p, h)
    \/ \E p \in StaticPrefixes : ServeStatic(p, "./public")
    \/ \E r \in TableRequests : HandleRequest(r)
    \/ RunMiddleware
    \/ CheckStatic
    \/ Dispatch
    \/ HandleError
    \/ Send

TableSpec == RouteInit /\ [][TableNext]_vars

\* handleConnection on the connections one worker is given in turn, with or
\* without TLS, on a server whose not-found handler may have been replaced
ConnNext ==
    \/ \E o \in TlsInitOutcomes, a \in BindArgs : StartHttps(o, a.port, a.host)
    \/ \E k \in {"custom", "status_only", "throw", "throw_other"} : SetNotFoundHandler(k)
    \/ BeginConnection
    \/ \E o \in HandshakeOutcomes : Handshake(o)
    \/ ReadNothing
    \/ \E r \in Requests : ReadRequest(r)
    \/ \E r \in PartialRequests : ReadPartial(r)
    \/ CheckStatic
    \/ Dispatch
    \/ HandleError
    \/ Send
    \/ CloseConnection
    \/ CatchConnection
    \/ EscapeConnection

ConnSpec == RouteInit /\ [][ConnNext]_vars

\* two listeners of one process: HttpServer::start on listener 1 with its
\* accept loop, stop() on it from another thread, and bind / listen / stop on
\* listener 2
SockInit ==
    /\ ServerInit
    /\ platform \in Platforms
    /\ NoParse
    /\ NoLib
    /\ is_running_ = FALSE
    /\ threads_ = <<NoThread>>
    /\ tasks_ = <<>>
    /\ task = [t \in TaskIds |-> NoTask]
    /\ ctl = [pc |-> "idle", op |-> "none", arg |-> 0, n |-> 0, was |-> FALSE,
              ops |-> 0, started |-> FALSE, last |-> "none"]
    /\ prod = [pc |-> "idle", cur |-> 0, calls |-> 0]
    /\ terminated = FALSE

SockNext ==
    \/ \E a \in BindArgs : CallBind(a.port, a.host)
    \/ CallListen
    \/ \E l \in Listeners : StopFlag(l)
    \/ \E l \in Listeners : StopClose(l)
    \/ \E a \in BindArgs : HttpStartBind(a.port, a.host)
    \/ HttpStartListen
    \/ HttpStartPool
    \/ AcceptEntry
    \/ AcceptLoop
    \/ AcceptCall
    \/ AcceptClient
    \/ AcceptWake
    \/ AcceptError
    \/ AcceptDispatch
    \/ HttpStartReturn

SockSpec == SockInit /\ [][SockNext]_vars

\* a thread that can take a step eventually takes it.  Nothing makes a
\* client connect, and nothing makes anybody call bind, listen or stop
SockFairness ==
    /\ WF_vars(StopClose(1))
    /\ WF_vars(AcceptEntry)
    /\ WF_vars(AcceptLoop)
    /\ WF_vars(AcceptCall)
    /\ WF_vars(AcceptWake)
    /\ WF_vars(AcceptError)
    /\ WF_vars(AcceptDispatch)
    /\ WF_vars(HttpStartReturn)

FairSockSpec == SockSpec /\ SockFairness

\* a server from start to stop: the accept loop hands every connection to
\* the pool as a task that runs handleConnection and returns, and stop() is
\* called from another thread at any moment
ServeNext ==
    \/ \E a \in BindArgs : HttpStartBind(a.port, a.host)
    \/ HttpStartListen
    \/ HttpStartPool
    \/ AcceptEntry
    \/ AcceptNext
    \/ AcceptCall
    \/ AcceptClient
    \/ AcceptWake
    \/ AcceptError
    \/ AcceptDispatch
    \/ HttpStartReturn
    \/ HandlerEnqueue
    \/ EnqueuePush
    \/ EnqueueNotify
    \/ \E w \in Workers : W_Loop(w)
    \/ \E w \in Workers : W_Lock(w)
    \/ \E w \in Workers : W_Wait(w)
    \/ \E w \in Workers : W_Check(w)
    \/ \E w \in Workers : W_Run(w, "ok")
    \/ HttpStop
    \/ HttpStopSocket
    \/ StopClose(1)
    \/ HttpStopPool
    \/ StopNotify
    \/ StopJoin

ServeSpec == SockInit /\ [][ServeNext]_vars

\* every thread that can take a step eventually takes it, and a thread
\* that asks for queue_mutex_ again and again eventually gets it.  Nothing
\* makes a client connect and nothing makes anybody call start or stop
ServeFairness ==
    /\ WF_vars(HttpStartListen)
    /\ WF_vars(HttpStartPool)
    /\ WF_vars(AcceptEntry)
    /\ WF_vars(AcceptNext)
    /\ WF_vars(AcceptCall)
    /\ WF_vars(AcceptWake)
    /\ WF_vars(AcceptError)
    /\ WF_vars(AcceptDispatch)
    /\ WF_vars(HttpStartReturn)
    /\ WF_vars(HandlerEnqueue)
    /\ SF_vars(EnqueuePush)
    /\ WF_vars(EnqueueNotify)
    /\ \A w \in 1..MaxThreads :
          /\ WF_vars(w \in Workers /\ (W_Loop(w) \/ W_Wait(w) \/ W_Check(w)))
          /\ WF_vars(w \in Workers /\ W_Run(w, "ok"))
          /\ SF_vars(w \in Workers /\ W_Lock(w))
    /\ WF_vars(HttpStopSocket)
    /\ WF_vars(StopClose(1))
    /\ WF_vars(HttpStopPool)
    /\ WF_vars(StopNotify)
    /\ WF_vars(StopJoin)

FairServeSpec == ServeSpec /\ ServeFairness

\* startHttps called on a server, again after a call that returned false,
\* with the accept loop a successful call enters and the clients that
\* connect
TlsNext ==
    \/ \E o \in TlsInitOutcomes, a \in BindArgs : StartHttps(o, a.port, a.host)
    \/ HttpStartListen
    \/ HttpStartPool
    \/ AcceptEntry
    \/ AcceptLoop
    \/ AcceptCall
    \/ AcceptClient
    \/ AcceptDispatch

TlsSpec == SockInit /\ [][TlsNext]_vars

\* HttpRequest(raw_request) on each of the inputs: the constructor, then
\* parse
ParseInit ==
    /\ ServerInit
    /\ platform = "linux"
    /\ NoLib
    /\ is_running_ = FALSE
    /\ threads_ = <<NoThread>>
    /\ tasks_ = <<>>
    /\ task = [t \in TaskIds |-> NoTask]
    /\ ctl = [pc |-> "idle", op |-> "none", arg |-> 0, n |-> 0, was |-> FALSE,
              ops |-> 0, started |-> FALSE, last |-> "none"]
    /\ prod = [pc |-> "idle", cur |-> 0, calls |-> 0]
    /\ terminated = FALSE
    /\ input \in Inputs
    /\ hreq = NewRequest
    /\ ppc = [pc |-> "start", ret |-> "none", unread |-> input.text, target |-> ""]

ParseNext ==
    \/ ParseRequestLine
    \/ ParsePath
    \/ ParseHeaders
    \/ ParseBody

ParseSpec == ParseInit /\ [][ParseNext]_vars

\* calls made in any order on one HttpResponse, built by either constructor
ResponseInit ==
    /\ ServerQuiet
    /\ hres \in {[obj |-> r, op |-> "none", n |-> 0, wire |-> NoWire]
                    : r \in {NewResponse} \cup {HttpResponse(c) : c \in StatusCodes}}
    /\ NoDecode
    /\ NoMatch

ResponseNext ==
    \/ \E c \in StatusCodes :
          ResponseCall("setStatusCode", setStatusCode(hres.obj, c))
    \/ \E n \in HeaderNames, v \in HeaderValues :
          ResponseCall("setHeader", setHeader(hres.obj, n, v))
    \/ \E b \in Bodies : ResponseCall("setBody", setBody(hres.obj, b))
    \/ \E b \in Bodies : \E k \in Lengths(b) :
          ResponseCall("setBodyLength", setBodyLength(hres.obj, b, k))
    \/ \E b \in Bodies : ResponseCall("setJsonContent", setJsonContent(hres.obj, b))
    \/ \E b \in Bodies : ResponseCall("setHtmlContent", setHtmlContent(hres.obj, b))
    \/ \E b \in Bodies : ResponseCall("setTextContent", setTextContent(hres.obj, b))
    \/ \E p \in {"./public/f.txt", "./public/f.bin", "./public/none"} :
          ResponseCall("setFileContent", setFileContent(hres.obj, p))
    \/ ResponseCall("enableCors", enableCors(hres.obj, "*"))
    \/ CallToString

ResponseSpec == ResponseInit /\ [][ResponseNext]_vars

\* urlDecode on each of the strings
DecodeInit ==
    /\ ServerQuiet
    /\ NoResponseUse
    /\ dec \in {[pc |-> "called", encoded |-> e, decoded |-> ""] : e \in EncodedInputs}
    /\ NoMatch

DecodeNext == CallUrlDecode

DecodeSpec == DecodeInit /\ [][DecodeNext]_vars

\* matchRoute on each pattern and each path
MatchInit ==
    /\ ServerQuiet
    /\ NoResponseUse
    /\ NoDecode
    /\ match \in {[pc |-> "called", pattern |-> p, path |-> q, result |-> FALSE]
                     : p \in PatternInputs, q \in PathInputs}

MatchNext == CallMatchRoute

MatchSpec == MatchInit /\ [][MatchNext]_vars

(* ------------------------- claims: ThreadPool ------------------------- *)

\* C1: every task passed to enqueue while the pool is running, the pool being
\* left running afterwards, is eventually executed, and no task is ever
\* executed more than once.
C1_EnqueuedTaskRunsOnce ==
    /\ [](\A t \in TaskIds : task[t].runs <= 1)
    /\ \A t \in TaskIds :
         (task[t].seen /\ task[t].st \in {"accepted", "queued"} /\ is_running_)
            ~> (task[t].runs = 1 \/ ~is_running_)

\* C2: once a started pool has come to rest (running, nothing queued, no call
\* in progress, every worker blocked in wait), every task that was passed to
\* enqueue before start() has been executed exactly once.
C2_TasksBeforeStartRun ==
    (/\ is_running_
     /\ ~terminated
     /\ ctl.pc = "idle"
     /\ prod.pc = "idle"
     /\ tasks_ = <<>>
     /\ \A w \in Workers : threads_[w].pc = "waiting")
    => \A t \in TaskIds : task[t].pre /\ task[t].st /= "none" => task[t].runs = 1

C4_QueueGrowsBeforeStart ==
    (~ctl.started /\ prod.pc = "idle") => getQueueSize = prod.calls

\* C5: the step on which resize(n) returns leaves getThreadCount() = max(n, 1)
\* and isRunning() as it was before the call; if the pool is running, every
\* one of its threads is live.
C5_ResizePostcondition ==
    [][(ctl.pc = "alloc" /\ ctl'.pc = "idle") =>
         /\ getThreadCount' = (IF ctl.arg >= 1 THEN ctl.arg ELSE 1)
         /\ isRunning' = ctl.was
         /\ (isRunning' => Cardinality(LiveWorkers') = getThreadCount')]_vars

\* C5 witness: resize(0) on a running pool has returned.
C5_Witness ==
    /\ ctl.pc = "idle"
    /\ ctl.last = "resize"
    /\ ctl.was
    /\ ctl.arg = 0
    /\ getThreadCount = 1
    /\ isRunning
    /\ Cardinality(LiveWorkers) = 1

\* C6: a task accepted by the running pool that is still pending while a
\* resize of the running pool is in progress is eventually executed, unless
\* the pool is stopped afterwards.
C6_ResizeLosesNoWork ==
    \A t \in TaskIds :
        (/\ task[t].seen
         /\ task[t].st \in {"accepted", "queued"}
         /\ ctl.op = "resize"
         /\ ctl.was
         /\ ctl.pc \in {"notify", "join", "alloc"})
            ~> (task[t].runs = 1 \/ ctl.op = "stop")

\* C7: the step on which a task raises an exception or failure kills no
\* worker: the set of live workers is the same before and after it.
C7_FailingTaskKeepsWorkers ==
    [][\A t \in TaskIds :
          (task[t].out = "none" /\ task'[t].out \in {"std_exception", "other_throw"})
          => LiveWorkers' = LiveWorkers]_vars

\* C8: while stop() waits for the workers to exit it is never stuck: some
\* thread of the pool, or a call in progress, can still take a step.
C8_StopNeverStuck ==
    (ctl.pc = "join" /\ ctl.op = "stop" /\ ~terminated) => ENABLED Scheduled

\* C33: during resize(n) on a running pool the old workers are joined only
\* once every one of them has returned from workerLoop, and the new workers
\* are created only once every old one has been joined: no old worker is
\* live on the step that starts the new ones.
C33_OldWorkersJoinedBeforeNewStart ==
    [][(ctl.op = "resize" /\ ctl.was) =>
         /\ (ctl.pc = "join" /\ ctl'.pc = "alloc") => LiveWorkers = {}
         /\ (ctl.pc = "alloc" /\ ctl'.pc = "idle") =>
               /\ \A w \in Workers : threads_[w] = NoThread
               /\ \A w \in 1..Len(threads_') : threads_'[w] = Spawned]_vars

\* C33 witness: resize(2) on a running pool returned after an old worker had
\* run a task, and a new worker has taken the next task.
C33_Witness ==
    /\ ctl.last = "resize"
    /\ ctl.was
    /\ ctl.arg = 2
    /\ ctl.pc = "idle"
    /\ \E t \in TaskIds : task[t].runs = 1
    /\ \E w \in Workers : threads_[w].pc = "run"

\* C34: a task is put on the queue only while the pool is running: no step
\* pushes a task when stop() has already set is_running_ to false.
C34_PushOnlyWhileRunning ==
    [][Len(tasks_') > Len(tasks_) => is_running_]_vars

(* -------------------- claims: routing and middleware ------------------ *)

\* the Response after middlewares 1..i have run on a fresh one
RECURSIVE ChainResponse(_)
ChainResponse(i) ==
    IF i = 0 THEN NewResponse
             ELSE MiddlewareEffect(middlewares_[i], ChainResponse(i - 1))

\* C9: once the i-th middleware has returned false, the functions called for
\* the request are middlewares 1..i and nothing else (no later middleware, no
\* static check, no route, not-found or error handler), and the response, as
\* held and as sent, is a fresh Response changed by middlewares 1..i only.
C9_HaltingMiddlewareEndsPipeline ==
    \A k \in 1..Len(log) :
        (log[k].ev = "middleware" /\ log[k].ret = "false")
        => /\ Len(log) = k
           /\ \A j \in 1..k : log[j].ev = "middleware" /\ log[j].i = j
           /\ rpc.pc \in {"done", "sent"}
           /\ response = ChainResponse(k)
           /\ rpc.pc = "sent" => sent = toString(ChainResponse(k))

\* C9 witness: the first of two middlewares returned false on a server with a
\* static mapping and a route that both match the request, and the response
\* was sent.
C9_Witness ==
    /\ rpc.pc = "sent"
    /\ Len(middlewares_) = 2
    /\ log = <<[ev |-> "middleware", i |-> 1, ret |-> "false"]>>
    /\ Len(routes_) = 1
    /\ RouteMatches(routes_[1])
    /\ MatchingPrefixes /= {}
    /\ sent.status_line = "HTTP/1.1 403 Forbidden\r\n"

\* the string ends with the given suffix
EndsWith(str, suffix) ==
    /\ Len(suffix) <= Len(str)
    /\ SubSeq(str, Len(str) - Len(suffix) + 1, Len(str)) = suffix

\* C10: with no route and no static mapping, and every middleware returning
\* true, a processed request has reached the not-found handler exactly once;
\* with the default handler the response is 404, text/plain, and its body
\* ends with the request path.
C10_EmptyServerAnswersNotFound ==
    (/\ routes_ = <<>>
     /\ DOMAIN static_paths_ = {}
     /\ \A i \in 1..Len(middlewares_) : MiddlewareReturn(middlewares_[i])
     /\ rpc.pc \in {"done", "sent"})
    => /\ Cardinality({k \in 1..Len(log) : log[k].ev = "not_found"}) = 1
       /\ not_found_handler_ = "default"
            => /\ response.status_code_ = 404
               /\ getHeader(response, "Content-Type") = "text/plain; charset=utf-8"
               /\ EndsWith(response.body_, request.path_)
               /\ response.body_ /= request.path_
               /\ rpc.pc = "sent"
                    => /\ sent.status_line = "HTTP/1.1 404 Not Found\r\n"
                       /\ sent.body = response.body_

\* C10 witness: a request that failed to parse went through two middlewares
\* of a server with no route and no static mapping, and a 404 was sent.
C10_Witness ==
    /\ rpc.pc = "sent"
    /\ routes_ = <<>>
    /\ DOMAIN static_paths_ = {}
    /\ middlewares_ = <<"tag", "tag">>
    /\ ~request.is_valid_
    /\ not_found_handler_ = "default"
    /\ sent.status_line = "HTTP/1.1 404 Not Found\r\n"

\* C11: when the request path starts with no registered static prefix, the
\* static step changes neither the response nor the record of handlers run
\* and hands the request to route matching, which then starts from exactly
\* the response the middlewares left, as it does with no mapping registered.
C11_StaticMissFallsThrough ==
    [][(/\ rpc.pc = "static"
        /\ rpc' /= rpc
        /\ \A p \in DOMAIN static_paths_ :
              \A n \in 0..Len(request.path_) : SubSeq(request.path_, 1, n) /= p)
       => /\ response' = response
          /\ log' = log
          /\ rpc'.pc = "route"
          /\ response' = ChainResponse(Len(middlewares_))
          /\ \A k \in 1..Len(log') : log'[k].ev = "middleware"]_vars

\* C11 witness: a request for /s/none on a server that maps /none only was
\* answered by a route handler
C11_Witness ==
    /\ rpc.pc = "sent"
    /\ DOMAIN static_paths_ = {"/none"}
    /\ request.path_ = "/s/none"
    /\ Len(log) >= 1
    /\ log[Len(log)].ev = "route"
    /\ log[Len(log)].ret = "ok"
    /\ sent.body = "GET test"

\* C12: once a middleware, a route handler or the not-found handler has
\* raised a failure, the failure stays inside processHttpRequest; when the
\* request is done the error handler has run exactly once and the default
\* one left status 500 with a plain-text body, and what is written to the
\* connection is that response serialized.
C12_HandlerFailureIsCaught ==
    (\E k \in 1..Len(log) : Throws(log[k].ret))
    => /\ rpc.pc \in {"error", "done", "sent"}
       /\ rpc.pc \in {"done", "sent"}
            => /\ Cardinality({k \in 1..Len(log) : log[k].ev = "error"}) = 1
               /\ response.status_code_ = 500
               /\ getHeader(response, "Content-Type") = "text/plain; charset=utf-8"
               /\ response.body_ = "Internal Server Error"
       /\ rpc.pc = "sent" => sent = toString(response)

\* C13: a connection whose TLS session could not be created or whose
\* handshake failed ends there: its socket is closed, nothing was written to
\* it, no middleware, handler or error handler ran for it, and
\* handleConnection returned normally, so the worker goes on to its next task.
C13_FailedHandshakeDropsConnection ==
    conn.hs \in {"create_failed", "handshake_failed"}
    => /\ conn.pc = "returned"
       /\ conn.socket = "closed"
       /\ conn.ssl /= "open"
       /\ sent = "nothing"
       /\ log = <<>>
       /\ rpc.pc = "config"
       /\ ~terminated

\* C13 witness: after a connection whose handshake failed, the same worker
\* served the next connection over TLS
C13_Witness ==
    /\ use_ssl_
    /\ conn.n = 2
    /\ conn.failed = 1
    /\ conn.hs = "ok"
    /\ conn.pc = "returned"
    /\ rpc.pc = "sent"
    /\ sent.status_line = "HTTP/1.1 404 Not Found\r\n"

(* ------------------------ claims: SocketServer ------------------------ *)

\* C14: listen() called on a listener on which no bind has succeeded since
\* it was constructed or last stopped returns false, and the listener is not
\* running afterwards.
C14_ListenNeedsBind ==
    \A l \in Listeners :
        (sock[l].call.op = "listen" /\ ~sock[l].call.pre)
        => /\ ~sock[l].call.ok
           /\ ~sock[l].is_running_

\* C14 witness: listener 2 was bound to port 9995, stopped, and then asked
\* to listen
C14_Witness ==
    /\ sock[2].call.op = "listen"
    /\ ~sock[2].call.pre
    /\ ~sock[2].call.ok
    /\ \E fd \in 1..Len(fds) : fds[fd].st = "closed" /\ fds[fd].port = 9995

\* C15: two listeners never hold sockets bound to the same address and port
\* at the same time.
C15_OneBindPerEndpoint ==
    \A l1, l2 \in Listeners :
        LET a == sock[l1].server_socket_
            b == sock[l2].server_socket_
        IN  (/\ l1 /= l2
             /\ a >= 1
             /\ b >= 1
             /\ fds[a].st \in {"bound", "listening"}
             /\ fds[b].st \in {"bound", "listening"}
             /\ fds[a].port /= 0)
            => ~(fds[a].ip = fds[b].ip /\ fds[a].port = fds[b].port)

\* C16: a bind whose port is outside 0..65535, or whose host is neither
\* empty, "0.0.0.0" nor a well-formed IPv4 address, returns false and leaves
\* the listener without a socket.
C16_BindRejectsInvalidArguments ==
    \A l \in Listeners :
        (/\ sock[l].call.op = "bind"
         /\ \/ sock[l].call.port \notin 0..65535
            \/ ~(sock[l].call.host \in {"", "0.0.0.0"} \/ inet_pton(sock[l].call.host)))
        => /\ ~sock[l].call.ok
           /\ sock[l].server_socket_ = -1

\* C17: every connection ::accept returned is, once the loop has looked at
\* it, either handed to the handler once (the listener was running) or closed
\* once by the listener (it was not, and the loop has ended), never both and
\* never neither.
C17_AcceptedConnectionHandledOrClosed ==
    \A c \in 1..Len(clients) :
        /\ clients[c].handled + clients[c].closed
              = (IF acc.pc = "got" /\ acc.cur = c THEN 0 ELSE 1)
        /\ clients[c].handled = 1 => clients[c].running = "true"
        /\ clients[c].closed = 1 => (clients[c].running = "false" /\ acc.pc = "returned")

\* C17 witness: the first connection went to the handler, the second came
\* in after stop() and was closed by the listener
C17_Witness ==
    /\ Len(clients) = 2
    /\ clients[1].handled = 1
    /\ clients[1].closed = 0
    /\ clients[2].handled = 0
    /\ clients[2].closed = 1

\* C18: once stop() has returned the listener is not running and has no
\* socket, no connection is handed to the handler that the loop looked at
\* after the flag was cleared, and an accept loop that was running when
\* stop() was called eventually returns.
C18_StopEndsAcceptLoop ==
    /\ [](\A l \in Listeners :
            (sock[l].call.op = "stop" /\ ~sock[l].stopping)
            => (~sock[l].is_running_ /\ sock[l].server_socket_ = -1))
    /\ [](\A c \in 1..Len(clients) :
            clients[c].handled = 1 => clients[c].running = "true")
    /\ (http.pc = "accept" /\ sock[1].call.op = "stop") ~> (acc.pc = "returned")

\* C19: when bind or listen fails inside HttpStart, start has returned false
\* after that one attempt, the server and the worker pool are not running,
\* accept was never entered and no connection was accepted.
C19_FailedStartLeavesServerStopped ==
    (http.bind_ok = "false" \/ http.listen_ok = "false")
    => /\ http.pc = "returned"
       /\ http.ret = "false"
       /\ ~http.is_running_
       /\ ~is_running_
       /\ \A w \in Workers : threads_[w].pc = "none"
       /\ acc.pc = "idle"
       /\ clients = <<>>
       /\ http.binds = 1
       /\ http.listens = (IF http.bind_ok = "false" THEN 0 ELSE 1)

\* C19 witness: bind succeeded and listen failed, because listener 2 began
\* to listen on the same endpoint in between
C19_Witness ==
    /\ http.pc = "returned"
    /\ http.ret = "false"
    /\ http.bind_ok = "true"
    /\ http.listen_ok = "false"
    /\ sock[2].is_running_

(* ------------------------- claims: HttpRequest ------------------------ *)

\* C20: when the input begins with a method token, a path token and a
\* version token that starts with "HTTP/", parse returns true with
\* isValid() true, and the method is the variant whose name is the token
\* read without regard to case, UNKNOWN when the token names none of the
\* seven.
C20_WellFormedRequestLineParses ==
    (input \in WellFormedInputs /\ ppc.pc = "returned")
    => /\ ppc.ret = "true"
       /\ hreq.is_valid_
       /\ hreq.method_ =
            (CASE input.method \in {"GET", "get", "Get"} -> "GET"
               [] input.method = "post" -> "POST"
               [] input.method = "PUT" -> "PUT"
               [] input.method = "Delete" -> "DELETE"
               [] input.method = "head" -> "HEAD"
               [] input.method = "OPTIONS" -> "OPTIONS"
               [] input.method = "patch" -> "PATCH"
               [] OTHER -> "UNKNOWN")

\* C20 witness: "get /a%20b?x=1&y HTTP/1.1" with headers and a body was
\* parsed into a GET for "/a b"
C20_Witness ==
    /\ ppc.pc = "returned"
    /\ input.method = "get"
    /\ input.path = "/a%20b?x=1&y"
    /\ hreq.is_valid_
    /\ hreq.method_ = "GET"
    /\ hreq.path_ = "/a b"
    /\ hreq.version_ = "HTTP/1.1"
    /\ hreq.body_ = "body"

\* the tokens of the first line of the input
FirstLineTokens == Tokens(StripCR(getline(input.text).line))

\* C24: a request is valid if and only if its first line splits on white
\* space into exactly three tokens and the third begins with "HTTP/": empty
\* input, fewer tokens, more tokens or another version prefix give an
\* invalid request.
C24_ValidIffThreeTokens ==
    ppc.pc = "returned" =>
        (hreq.is_valid_ <=> /\ Len(FirstLineTokens) = 3
                            /\ SubSeq(FirstLineTokens[3], 1, 5) = "HTTP/")

\* C25: when parsing marks the request invalid it stops there, and every
\* field has its empty default: method UNKNOWN; path, protocol version,
\* headers, query parameters and body empty.
C25_InvalidRequestKeepsDefaults ==
    (ppc.pc = "returned" /\ ~hreq.is_valid_)
    => /\ ppc.ret = "false"
       /\ hreq.method_ = "UNKNOWN"
       /\ hreq.path_ = ""
       /\ hreq.version_ = ""
       /\ DOMAIN hreq.headers_ = {}
       /\ DOMAIN hreq.query_params_ = {}
       /\ hreq.body_ = ""

\* C25 as amended: when parsing marks the request of HttpRequest(raw_request)
\* invalid it stops there, and every field has the constructor's default:
\* method UNKNOWN, protocol version "HTTP/1.1"; path, headers, query
\* parameters and body empty.
C25_InvalidRequestKeepsConstructorDefaults ==
    (ppc.pc = "returned" /\ ~hreq.is_valid_)
    => /\ ppc.ret = "false"
       /\ hreq.method_ = "UNKNOWN"
       /\ hreq.path_ = ""
       /\ hreq.version_ = "HTTP/1.1"
       /\ DOMAIN hreq.headers_ = {}
       /\ DOMAIN hreq.query_params_ = {}
       /\ hreq.body_ = ""

\* a request line of three tokens whose version is not in capitals was
\* rejected after the method and the path had been read
C25_Witness ==
    /\ ppc.pc = "returned"
    /\ input.text = "GET / http/1.1\r\n"
    /\ Len(FirstLineTokens) = 3
    /\ ppc.ret = "false"
    /\ ~hreq.is_valid_
    /\ hreq.version_ = "HTTP/1.1"

(* ------------------------ claims: HttpResponse ------------------------ *)

\* a status line read back: the text before the first blank, the number
\* between the first and the second blank, the text from there to the line
\* end, which must be the end of the line given
StatusLineParts(line) ==
    LET sp1 == Find(line, " ")
        rest1 == SubSeq(line, sp1 + 2, Len(line))
        sp2 == Find(rest1, " ")
        rest2 == SubSeq(rest1, sp2 + 2, Len(rest1))
        eol == Find(rest2, "\r\n")
    IN  [ok |-> sp1 >= 0 /\ sp2 >= 0 /\ eol >= 0 /\ eol + 2 = Len(rest2),
         version |-> SubSeq(line, 1, sp1),
         code |-> DecimalValue(SubSeq(rest1, 1, sp2)),
         reason |-> SubSeq(rest2, 1, eol)]

\* the reason phrases HTTP gives the enumerated status codes
ReasonPhrase(s) ==
    CASE s = 200 -> "OK"
      [] s = 201 -> "Created"
      [] s = 204 -> "No Content"
      [] s = 400 -> "Bad Request"
      [] s = 401 -> "Unauthorized"
      [] s = 403 -> "Forbidden"
      [] s = 404 -> "Not Found"
      [] s = 405 -> "Method Not Allowed"
      [] s = 500 -> "Internal Server Error"
      [] s = 501 -> "Not Implemented"
      [] s = 503 -> "Service Unavailable"

\* C21: for every enumerated status code s, the first line toString() gives
\* for a response with status s is "HTTP/1.1", the decimal number of s and
\* the reason phrase of s, separated by blanks; read back, the line gives the
\* same status code and the same reason phrase, which is never "Unknown".
C21_StatusLineRoundTrip ==
    hres.op = "toString" =>
        LET s == hres.obj.status_code_
            p == StatusLineParts(hres.wire.status_line)
        IN  /\ s \in StatusCodes
            /\ p.ok
            /\ p.version = "HTTP/1.1"
            /\ p.code = s
            /\ p.reason = ReasonPhrase(s)
            /\ p.reason = statusCodeToString(s)
            /\ p.reason /= "Unknown"

\* a response whose status was set to 503 is serialized
C21_Witness ==
    /\ hres.op = "toString"
    /\ hres.obj.status_code_ = 503
    /\ hres.wire.status_line = "HTTP/1.1 503 Service Unavailable\r\n"

\* the member functions that store a body
BodySetters ==
    {"setBody", "setBodyLength", "setJsonContent", "setHtmlContent", "setTextContent"}

\* C26: right after setBody (either overload), setJsonContent, setHtmlContent
\* or setTextContent, the Content-Length header is the decimal length of the
\* stored body, and toString() emits that header.
C26_ContentLengthTracksBody ==
    hres.op \in BodySetters =>
        LET h == getHeader(hres.obj, "Content-Length")
        IN  /\ h /= ""
            /\ Len(h) = 1 \/ CharAt(h, 1) /= "0"
            /\ DecimalValue(h) = Len(hres.obj.body_)
            /\ ("Content-Length: " \o h \o "\r\n") \in toString(hres.obj).header_lines

\* the first five bytes of a longer buffer are stored over a Content-Length
\* header a caller had set by hand
C26_Witness ==
    /\ hres.op = "setBodyLength"
    /\ hres.n >= 2
    /\ hres.obj.body_ = "Hello"
    /\ getHeader(hres.obj, "Content-Length") = "5"

(* --------------------------- claims: urlDecode ------------------------ *)

IsHex(c) == HexDigit(c) >= 0

\* position i of str holds a '%' that two hexadecimal digits follow
Escape(str, i) ==
    /\ CharAt(str, i) = "%"
    /\ i + 2 <= Len(str)
    /\ IsHex(CharAt(str, i + 1))
    /\ IsHex(CharAt(str, i + 2))

\* the decoding the percent-encoding rule defines, read from the left: "%XY"
\* gives the byte 16*X+Y, '+' a blank, any other character itself
RECURSIVE PercentDecoded(_)
PercentDecoded(str) ==
    IF str = "" THEN ""
    ELSE IF Escape(str, 1)
      THEN Chr(16 * HexDigit(CharAt(str, 2)) + HexDigit(CharAt(str, 3)))
             \o PercentDecoded(SubSeq(str, 4, Len(str)))
    ELSE IF CharAt(str, 1) = "+" THEN " " \o PercentDecoded(SubSeq(str, 2, Len(str)))
    ELSE CharAt(str, 1) \o PercentDecoded(SubSeq(str, 2, Len(str)))

\* C22: urlDecode turns every "%XY" with hexadecimal X and Y into the byte
\* 16*X+Y, every '+' into a blank, and copies every other character, at
\* any position of the input, its end included; an input without '%' and
\* '+' comes back unchanged.
C22_UrlDecodeDecodes ==
    dec.pc = "returned" => dec.decoded = PercentDecoded(dec.encoded)

\* C23: a '%' that two hexadecimal digits do not follow is copied with the
\* characters after it: an input without '+' in which no '%' is followed by
\* two hexadecimal digits is returned as it is.
C23_MalformedPercentCopied ==
    /\ dec.pc = "returned"
    /\ \A i \in 1..Len(dec.encoded) :
          /\ CharAt(dec.encoded, i) /= "+"
          /\ ~Escape(dec.encoded, i)
    => dec.decoded = dec.encoded

(* --------------------------- claims: routes --------------------------- *)

\* the whole path comes from the pattern when every '*' is replaced by some
\* sequence of characters, possibly empty, and every other character of
\* the pattern is kept
RECURSIVE Substitutes(_, _)
Substitutes(pattern, path) ==
    IF pattern = "" THEN path = ""
    ELSE IF CharAt(pattern, 1) = "*"
      THEN \E k \in 0..Len(path) :
              Substitutes(SubSeq(pattern, 2, Len(pattern)), SubSeq(path, k + 1, Len(path)))
    ELSE /\ path /= ""
         /\ CharAt(path, 1) = CharAt(pattern, 1)
         /\ Substitutes(SubSeq(pattern, 2, Len(pattern)), SubSeq(path, 2, Len(path)))

\* C29: matchRoute(pattern, path) is true if and only if the pattern equals
\* the path, or the pattern holds a '*' and the whole path is the pattern
\* with each '*' replaced by some sequence of characters and every other
\* character kept.
C29_MatchRouteIsWildcardMatch ==
    match.pc = "returned" =>
        (match.result <=> \/ match.pattern = match.path
                          \/ /\ HasWildcard(match.pattern)
                             /\ Substitutes(match.pattern, match.path))

\* the entries of the record of handlers run that have the given kind
Ran(ev) == {k \in 1..Len(log) : log[k].ev = ev}

\* the request went through the route table: the middleware chain
\* completed, no static prefix took the request, and the scan is over
Routed ==
    /\ rpc.pc \in {"done", "sent", "error", "uncaught"}
    /\ Ran("static") = {}
    /\ Cardinality(Ran("middleware")) = Len(middlewares_)
    /\ \A k \in Ran("middleware") : log[k].ret = "true"

\* route j passes the test of the scan: its method is the request's or
\* OPTIONS, and matchRoute accepts its pattern for the request path
Passes(j) ==
    /\ routes_[j].method = request.method_ \/ routes_[j].method = "OPTIONS"
    /\ matchRoute(routes_[j].path, request.path_)

\* C27: routes are scanned in registration order and the first one that
\* passes wins: its handler runs exactly once, no other route's handler
\* runs, and the not-found handler runs if and only if no route passed, so
\* that exactly one of the two kinds of handler runs for a routed request.
C27_FirstMatchingRouteWins ==
    Routed =>
        /\ \A j \in 1..Len(routes_) :
              (Passes(j) /\ \A i \in 1..(j - 1) : ~Passes(i))
              => /\ Cardinality(Ran("route")) = 1
                 /\ \A k \in Ran("route") : log[k].i = j
        /\ (\A j \in 1..Len(routes_) : ~Passes(j)) => Ran("route") = {}
        /\ Ran("not_found") /= {} <=> \A j \in 1..Len(routes_) : ~Passes(j)
        /\ Cardinality(Ran("route")) + Cardinality(Ran("not_found")) = 1

\* two routes that both pass were registered, "/*" before "/a", and the
\* handler of the first answered
C27_Witness ==
    /\ rpc.pc = "sent"
    /\ Routed
    /\ Len(routes_) = 2
    /\ routes_[1].path = "/*"
    /\ routes_[2].path = "/a"
    /\ Passes(1)
    /\ Passes(2)
    /\ Ran("route") /= {}
    /\ \A k \in Ran("route") : log[k].i = 1
    /\ sent.body = "GET test"

\* C28: the route whose handler ran has a pattern that matches the path,
\* and its method is the request's method, or it is an OPTIONS route and
\* some route registered on the same pattern has the request's method; an
\* OPTIONS route does not answer a request whose method has no route on
\* its pattern.
C28_OptionsRouteNeedsRegisteredMethod ==
    \A k \in Ran("route") :
        LET route == routes_[log[k].i]
        IN  /\ matchRoute(route.path, request.path_)
            /\ \/ route.method = request.method_
               \/ /\ route.method = "OPTIONS"
                  /\ \E j \in 1..Len(routes_) :
                        /\ routes_[j].path = route.path
                        /\ routes_[j].method = request.method_

\* the content type the extension of a file name gives
ContentTypeOf(file_path) ==
    CASE EndsWith(file_path, ".txt") -> "text/plain"
      [] EndsWith(file_path, ".html") -> "text/html"
      [] OTHER -> "application/octet-stream"

\* C30: static mappings come before the route table: once the middleware
\* chain completed on a path that starts with a registered static prefix,
\* no route handler and no not-found handler runs, even if a route passes;
\* a missing file gives status NOT_FOUND with a plain-text body, a found
\* file its bytes with the content type of its extension,
\* application/octet-stream when the extension is unknown.
C30_StaticBeforeRoutes ==
    (/\ rpc.pc \in {"done", "sent", "error", "uncaught"}
     /\ Cardinality(Ran("middleware")) = Len(middlewares_)
     /\ \A k \in Ran("middleware") : log[k].ret = "true"
     /\ \E p \in DOMAIN static_paths_ :
           \E n \in 0..Len(request.path_) : SubSeq(request.path_, 1, n) = p)
    => /\ rpc.pc \in {"done", "sent"}
       /\ Ran("route") = {}
       /\ Ran("not_found") = {}
       /\ Cardinality(Ran("static")) = 1
       /\ \A k \in Ran("static") :
             IF log[k].ret \in DOMAIN Files
               THEN /\ response.body_ = Files[log[k].ret]
                    /\ getHeader(response, "Content-Type") = ContentTypeOf(log[k].ret)
               ELSE /\ response.status_code_ = 404
                    /\ getHeader(response, "Content-Type") = "text/plain; charset=utf-8"
                    /\ response.body_ /= ""
       /\ rpc.pc = "sent" => sent = toString(response)

\* a file with an unknown extension was served although the route "/*"
\* passes for its path
C30_Witness ==
    /\ rpc.pc = "sent"
    /\ request.path_ = "/s/f.bin"
    /\ "/s" \in DOMAIN static_paths_
    /\ Len(routes_) >= 1
    /\ Passes(1)
    /\ Len(middlewares_) >= 1
    /\ sent.body = "bin"
    /\ "Content-Type: application/octet-stream\r\n" \in sent.header_lines

(* --------------------- claims: listener life cycle -------------------- *)

\* C38: whatever bind, listen and stop calls were made on a listener, a
\* listener whose isRunning() is true holds a socket: server_socket_ >= 0.
C38_RunningListenerHasSocket ==
    \A l \in Listeners : sock[l].is_running_ => sock[l].server_socket_ >= 0

(* ------------------- claims: connections and responses ---------------- *)

\* C31: a request whose parse result is invalid goes through the pipeline
\* like any other, with method UNKNOWN and an empty path: every middleware
\* runs, in order, until one returns false or throws; when all returned true
\* and neither a static prefix nor a route passes for these values, the
\* not-found handler runs once; no status BAD_REQUEST is ever set.
C31_InvalidRequestFlowsThrough ==
    (~request.is_valid_ /\ rpc.pc \in {"done", "sent", "error", "uncaught"})
    => /\ request = [method_ |-> "UNKNOWN", path_ |-> "", is_valid_ |-> FALSE]
       /\ response.status_code_ /= 400
       /\ \A i \in 1..Len(middlewares_) :
             (\A j \in 1..(i - 1) : MiddlewareReturn(middlewares_[j]))
             => /\ i <= Len(log)
                /\ log[i].ev = "middleware"
                /\ log[i].i = i
       /\ (/\ \A i \in 1..Len(middlewares_) : MiddlewareReturn(middlewares_[i])
           /\ MatchingPrefixes = {}
           /\ FirstMatch = 0)
          => /\ Ran("static") = {}
             /\ Ran("route") = {}
             /\ Cardinality(Ran("not_found")) = 1
             /\ log[Len(middlewares_) + 1].ev = "not_found"
             /\ not_found_handler_ = "default" => response.status_code_ = 404

\* C31 witness: an invalid request went through a middleware of a server
\* that has a route and a static mapping, and the answer of the default
\* not-found handler was sent.
C31_Witness ==
    /\ rpc.pc = "sent"
    /\ ~request.is_valid_
    /\ middlewares_ = <<"tag">>
    /\ Len(routes_) = 1
    /\ "/s" \in DOMAIN static_paths_
    /\ not_found_handler_ = "default"
    /\ sent.status_line = "HTTP/1.1 404 Not Found\r\n"
    /\ sent.body = "404 Not Found: "

\* C35: a startHttps call whose TLS initialization fails, for whichever
\* reason, leaves an SslServer that is not initialized and gives no
\* session, and returns false: no socket is created or bound, the worker
\* pool is not started and neither the listener nor the server is running.
C35_FailedTlsInitStartsNothing ==
    [][(http'.https = http.https + 1 /\ ssl_server_'.init /= "ok")
       => /\ ~ssl_server_'.is_initialized_
          /\ ssl_server_'.ssl_context_ = "null"
          /\ createSslConnection(ssl_server_') = {"none"}
          /\ http'.pc = "returned"
          /\ http'.ret = "false"
          /\ ~http'.is_running_
          /\ http'.binds = http.binds
          /\ sock' = sock
          /\ fds' = fds
          /\ use_ssl_' = use_ssl_
          /\ is_running_' = is_running_
          /\ threads_' = threads_]_vars

\* C35 witness: a second startHttps call, made after one that failed in
\* bind, was given a key that does not match the certificate.
C35_Witness ==
    /\ http.https = 2
    /\ http.binds = 1
    /\ http.bind_ok = "false"
    /\ ssl_server_.init = "mismatch"
    /\ ~ssl_server_.is_initialized_
    /\ use_ssl_
    /\ http.ret = "false"
    /\ ~http.is_running_
    /\ ~is_running_

\* C32: when the read loop of a connection ended before the header
\* terminator arrived, the task ends there: the routing pipeline is not
\* entered, nothing is written, and the connection is closed.
C32_IncompleteRequestEndsTask ==
    conn.term = "missing"
    => /\ conn.pc = "returned"
       /\ rpc.pc = "config"
       /\ log = <<>>
       /\ sent = "nothing"
       /\ conn.socket = "closed"

\* the task that carries connection c: tasks are enqueued in the order in
\* which connections are handed to the handler
TaskOf(c) == Cardinality({d \in 1..c : clients[d].handled = 1})

\* connection c was closed: by the accept loop, or by handleConnection,
\* which closes the socket before the task returns
ConnectionClosed(c) ==
    /\ c <= Len(clients)
    /\ \/ clients[c].closed = 1
       \/ clients[c].handled = 1 /\ task[TaskOf(c)].runs = 1

\* C36: every connection ::accept returned is eventually closed, whenever
\* stop() is called.
C36_AcceptedConnectionEventuallyClosed ==
    \A c \in 1..MaxClients : (c <= Len(clients)) ~> ConnectionClosed(c)

\* C37: when handleConnection is over, whichever way it ended,
\* close(client_socket) has been called exactly once.
C37_SocketClosedExactlyOnce ==
    /\ conn.closes <= 1
    /\ conn.pc \in {"returned", "escaped"} => conn.closes = 1 /\ conn.socket = "closed"

\* the pieces of a path between its slashes
RECURSIVE PathSegments(_)
PathSegments(path) ==
    LET i == Find(path, "/")
    IN  IF i < 0 THEN <<path>>
                 ELSE <<SubSeq(path, 1, i)>> \o PathSegments(SubSeq(path, i + 2, Len(path)))

\* the directories the operating system walks through for the segments:
\* "" and "." stay where they are, ".." goes one up
RECURSIVE Resolve(_, _)
Resolve(segments, walked) ==
    IF segments = <<>> THEN walked
    ELSE LET seg == Head(segments)
             up == IF walked /= <<>> /\ walked[Len(walked)] /= ".."
                     THEN SubSeq(walked, 1, Len(walked) - 1)
                     ELSE Append(walked, "..")
         IN  Resolve(Tail(segments),
                     IF seg \in {"", "."} THEN walked
                     ELSE IF seg = ".." THEN up
                     ELSE Append(walked, seg))

\* the file the path names lies in the directory or below it
Inside(directory, file_path) ==
    LET d == Resolve(PathSegments(directory), <<>>)
        f == Resolve(PathSegments(file_path), <<>>)
    IN  /\ Len(f) > Len(d)
        /\ SubSeq(f, 1, Len(d)) = d

\* C39: the file a static mapping makes the server open lies inside the
\* directory of a mapping whose prefix the request path starts with,
\* whatever ".." segments the path has.
C39_StaticFileInsideDirectory ==
    \A k \in Ran("static") :
        \E p \in MatchingPrefixes : Inside(static_paths_[p], log[k].ret)

\* C40: whatever was written to a connection has a Content-Length header
\* whose value is the length of the body written.
C40_WrittenResponseHasContentLength ==
    (conn.pc /= "idle" /\ rpc.pc = "sent")
    => ("Content-Length: " \o ToString(Len(sent.body)) \o "\r\n") \in sent.header_lines

====
